---- MODULE Spec2Model ----
(***************************************************************************)
(* A model of the bonsai build tool's asset pipeline: the single-file      *)
(* staleness gate (build.rs should_skip), the directory staleness gate     *)
(* (packer.rs should_repack) and the texture atlas packer (packer.rs).     *)
(*                                                                         *)
(* The native-library build matrix (sokol.rs compile_sokol), the process   *)
(* supervisor (build.rs run_with_prefix) and the shader stage (build.rs    *)
(* compile_shaders) follow.                                                *)
(*                                                                         *)
(* The specifications share the variables:                                 *)
(*   GateSpec     a source file S and an output O that are touched and     *)
(*                removed while should_skip is called;                     *)
(*   PackSpec     an images directory that is edited while pack_atlas      *)
(*                is run;                                                  *)
(*   ExtrudeSpec  extrude_tile applied to every small image;               *)
(*   MatrixSpec   compile_sokol run, and run again, on a sokol directory;  *)
(*   ProcSpec     run_with_prefix supervising a child process;             *)
(*   ShaderSpec   compile_shaders run on a tree of shader files.           *)
(***************************************************************************)
EXTENDS Integers, Sequences, FiniteSets, TLC

VARIABLES
    clock,       \* the filesystem clock (the mtime a write stamps)
    src_mtime,   \* GateSpec: mtime of the source S, or Absent
    out_mtime,   \* GateSpec: mtime of the output O, or Absent
    last_touch,  \* GateSpec: which of S and O was touched last
    gate,        \* GateSpec: the last should_skip call and its result
    tree,        \* PackSpec: entry of the images directory -> mtime or Absent
    atlas,       \* PackSpec: atlas.png on disk
    meta,        \* PackSpec: the sprite metadata on disk
    run,         \* PackSpec: the last pack_atlas call
    tile_in,     \* ExtrudeSpec: the image handed to extrude_tile
    tile_out,    \* ExtrudeSpec: the image extrude_tile returned
    mx,          \* MatrixSpec: the sokol directory and the compile_sokol call
    proc,        \* ProcSpec: a child process under run_with_prefix
    sh,          \* ShaderSpec: the shader files and the compile_shaders call
    bd,          \* BuildSpec: the build_desktop / build_web call
    gr,          \* GridSpec: a tileset file stem and the grid read from it
    ini,         \* InitSpec: the destination directory and the init call
    pj           \* ProjectSpec: a project's systems, its manifest and the commands run on it

vars == <<clock, src_mtime, out_mtime, last_touch, gate,
          tree, atlas, meta, run, tile_in, tile_out, mx, proc, sh, bd,
          gr, ini, pj>>

gateVars == <<src_mtime, out_mtime, last_touch, gate>>
packVars == <<tree, atlas, meta, run>>
tileVars == <<tile_in, tile_out>>
toolVars == <<gr, ini, pj>>
laterVars == <<mx, proc, sh, bd, gr, ini, pj>>

\* A path that does not exist has no mtime.
Absent == -1

\* No call made yet, no image, no atlas.png, no sprite metadata.
NoCall == [called |-> FALSE]
NoImage == [w |-> 0, h |-> 0, px |-> <<>>]
NoAtlas == [exists |-> FALSE]
NoMeta == [exists |-> FALSE]

\* Result<T, CustomError>
Ok(v) == [ok |-> TRUE, val |-> v]
Err(kind, msg) == [ok |-> FALSE, err |-> kind, msg |-> msg]

(***************************************************************************)
(* build.rs: should_skip                                                   *)
(***************************************************************************)

\* should_skip with the comparison made strict: equal timestamps rebuild.
should_skip_strict(src, out) ==
    IF out = Absent THEN Ok(FALSE)
    ELSE IF src = Absent THEN Err("IoError", "src")
    ELSE Ok(src < out)

\* fn should_skip(src, out): Ok(false) when out does not exist; the I/O
\* error of fs::metadata(src) when src does not exist; else src <= out.
should_skip(src, out) ==
    IF out = Absent THEN Ok(FALSE)
    ELSE IF src = Absent THEN Err("IoError", "src")
    ELSE Ok(src <= out)

\* The gate's answer "rebuild": should_skip returned Ok(false).
is_stale(res) == res.ok /\ ~res.val

\* Bound of GateSpec's clock.
MaxGateClock == 3

GateInit ==
    /\ clock = 0
    /\ src_mtime = 0
    /\ out_mtime = Absent
    /\ last_touch = "src"
    /\ gate = NoCall
    /\ tree = <<>> /\ atlas = NoAtlas /\ meta = NoMeta /\ run = NoCall
    /\ tile_in = NoImage /\ tile_out = NoImage
    /\ mx = NoCall /\ proc = NoCall /\ sh = NoCall /\ bd = NoCall /\ gr = NoCall /\ ini = NoCall /\ pj = NoCall

\* Time passes.
GateTick ==
    /\ clock < MaxGateClock
    /\ clock' = clock + 1
    /\ UNCHANGED <<gateVars, packVars, tileVars, laterVars>>

\* S is written (created if absent): its mtime becomes the current time.
TouchSrc ==
    /\ src_mtime' = clock
    /\ last_touch' = "src"
    /\ UNCHANGED <<clock, out_mtime, gate, packVars, tileVars, laterVars>>

\* O is written (created if absent): its mtime becomes the current time.
TouchOut ==
    /\ out_mtime' = clock
    /\ last_touch' = "out"
    /\ UNCHANGED <<clock, src_mtime, gate, packVars, tileVars, laterVars>>

RemoveOut ==
    /\ out_mtime # Absent
    /\ out_mtime' = Absent
    /\ UNCHANGED <<clock, src_mtime, last_touch, gate, packVars, tileVars, laterVars>>

RemoveSrc ==
    /\ src_mtime # Absent
    /\ src_mtime' = Absent
    /\ UNCHANGED <<clock, out_mtime, last_touch, gate, packVars, tileVars, laterVars>>

\* A stage calls should_skip(S, O).
CallShouldSkip ==
    /\ gate' = [called |-> TRUE, src |-> src_mtime, out |-> out_mtime,
                last |-> last_touch, res |-> should_skip(src_mtime, out_mtime)]
    /\ UNCHANGED <<clock, src_mtime, out_mtime, last_touch, packVars, tileVars, laterVars>>

GateNext ==
    \/ GateTick
    \/ TouchSrc
    \/ TouchOut
    \/ RemoveOut
    \/ RemoveSrc
    \/ CallShouldSkip

GateSpec == GateInit /\ [][GateNext]_vars

\* C1 (as amended): whenever should_skip is called with S readable, it
\* reports "rebuild" exactly when O does not exist or S.mtime > O.mtime, so
\* equal timestamps count as built; S touched last with a timestamp later
\* than O's is reported stale, and O touched last is reported fresh.
C1_GateIffStrictlyNewer ==
    (gate.called /\ gate.src # Absent) =>
        /\ gate.res.ok
        /\ is_stale(gate.res) <=> (gate.out = Absent \/ gate.src > gate.out)
        /\ (gate.last = "src" /\ gate.out # Absent /\ gate.src > gate.out)
               => is_stale(gate.res)
        /\ (gate.last = "out" /\ gate.out # Absent) => ~is_stale(gate.res)

\* C1 witness: the gate was called with both files present and equal
\* timestamps, S touched last, and answered "already built".
C1_Witness ==
    /\ gate.called
    /\ gate.src # Absent /\ gate.src = gate.out
    /\ gate.last = "src"
    /\ gate.res = Ok(TRUE)

\* C1 (as claimed): touching S after O always makes the gate report stale.
C1_TouchSrcAlwaysStale ==
    (gate.called /\ gate.src # Absent /\ gate.out # Absent /\ gate.last = "src")
        => is_stale(gate.res)

(***************************************************************************)
(* Images.  An image is [w, h, px] with px[<<x, y>>] the pixel at column x *)
(* and row y.  A pixel is <<colour, alpha>>; the model keeps the two alpha *)
(* values on which alpha blending is exact (0 and 255).                    *)
(***************************************************************************)

\* Rgba([0, 0, 0, 0]): the pixel of a freshly allocated RgbaImage.
Transparent == <<0, 0>>

Pixels == {Transparent, <<1, 0>>, <<2, 255>>}

Coords(w, h) == (0 .. w - 1) \X (0 .. h - 1)

\* Bound of ExtrudeSpec: the largest width and height of the images tried.
MaxTileDim == 2

TileImages ==
    UNION { { [w |-> w, h |-> h, px |-> f] : f \in [Coords(w, h) -> Pixels] } :
            w \in 1 .. MaxTileDim, h \in 1 .. MaxTileDim }

\* Pixel::blend for Rgba<u8> (what imageops::overlay applies to each pixel):
\* a source pixel of alpha 0 leaves the destination as it is, a source pixel
\* of full alpha replaces it.
blend(bottom, top) == IF top[2] = 0 THEN bottom ELSE top

\* imageops::flip_vertical_in_place
flip_vertical(img) ==
    [w |-> img.w, h |-> img.h,
     px |-> [p \in Coords(img.w, img.h) |-> img.px[<<p[1], img.h - 1 - p[2]>>]]]

Min(a, b) == IF a < b THEN a ELSE b
Max(a, b) == IF a > b THEN a ELSE b

\* imageops::crop_imm(img, x, y, width, height).to_image(): the rectangle is
\* clamped to the image.
crop_imm(img, x, y, width, height) ==
    LET cx == Min(x, img.w)
        cy == Min(y, img.h)
        cw == Min(width, img.w - cx)
        ch == Min(height, img.h - cy)
    IN  [w |-> cw, h |-> ch,
         px |-> [p \in Coords(cw, ch) |-> img.px[<<cx + p[1], cy + p[2]>>]]]

\* fn extrude_tile(img), for w, h >= 1.  The new (w+2) x (h+2) image starts
\* transparent; overlay blends img onto it at (1, 1); the two loops put the
\* top/bottom rows and the left/right columns; the last four put_pixel calls
\* set the corners.  No two put_pixel calls write the same position, so the
\* result is given position by position.
extrude_tile(img) ==
    LET w == img.w
        h == img.h
    IN  [w |-> w + 2, h |-> h + 2,
         px |-> [p \in Coords(w + 2, h + 2) |->
                   LET x == p[1]
                       y == p[2]
                   IN  IF x \in 1 .. w /\ y \in 1 .. h
                         THEN blend(Transparent, img.px[<<x - 1, y - 1>>])
                       ELSE IF x \in 1 .. w /\ y = 0 THEN img.px[<<x - 1, 0>>]
                       ELSE IF x \in 1 .. w THEN img.px[<<x - 1, h - 1>>]
                       ELSE IF y \in 1 .. h /\ x = 0 THEN img.px[<<0, y - 1>>]
                       ELSE IF y \in 1 .. h THEN img.px[<<w - 1, y - 1>>]
                       ELSE IF x = 0 /\ y = 0 THEN img.px[<<0, 0>>]
                       ELSE IF y = 0 THEN img.px[<<w - 1, 0>>]
                       ELSE IF x = 0 THEN img.px[<<0, h - 1>>]
                       ELSE img.px[<<w - 1, h - 1>>]]]

ExtrudeInit ==
    /\ tile_in \in TileImages
    /\ tile_out = NoImage
    /\ clock = 0
    /\ src_mtime = Absent /\ out_mtime = Absent
    /\ last_touch = "src" /\ gate = NoCall
    /\ tree = <<>> /\ atlas = NoAtlas /\ meta = NoMeta /\ run = NoCall
    /\ mx = NoCall /\ proc = NoCall /\ sh = NoCall /\ bd = NoCall /\ gr = NoCall /\ ini = NoCall /\ pj = NoCall

\* process_images hands a cropped tile, flipped, to extrude_tile.
ExtrudeTile ==
    /\ tile_out = NoImage
    /\ tile_out' = extrude_tile(tile_in)
    /\ UNCHANGED <<clock, gateVars, packVars, tile_in, laterVars>>

\* The tile is flipped in place before it is extruded.
FlipTile ==
    /\ tile_out = NoImage
    /\ flip_vertical(tile_in) # tile_in
    /\ tile_in' = flip_vertical(tile_in)
    /\ UNCHANGED <<clock, gateVars, packVars, tile_out, laterVars>>

ExtrudeNext ==
    \/ ExtrudeTile
    \/ FlipTile

ExtrudeSpec == ExtrudeInit /\ [][ExtrudeNext]_vars

Extruded == tile_out # NoImage

\* C7: the extruded image is (w+2, h+2); pixel (x+1, y+1) equals original
\* (x, y); border pixels equal the nearest original edge pixel; the corners
\* equal the original corners.
C7_ExtrudeCopiesInteriorAndEdges ==
    Extruded =>
        LET w == tile_in.w
            h == tile_in.h
        IN  /\ tile_out.w = w + 2 /\ tile_out.h = h + 2
            /\ \A p \in Coords(w, h) :
                   tile_out.px[<<p[1] + 1, p[2] + 1>>] = tile_in.px[p]
            /\ \A y \in 0 .. h - 1 :
                   /\ tile_out.px[<<0, y + 1>>] = tile_in.px[<<0, y>>]
                   /\ tile_out.px[<<w + 1, y + 1>>] = tile_in.px[<<w - 1, y>>]
            /\ \A x \in 0 .. w - 1 :
                   /\ tile_out.px[<<x + 1, 0>>] = tile_in.px[<<x, 0>>]
                   /\ tile_out.px[<<x + 1, h + 1>>] = tile_in.px[<<x, h - 1>>]
            /\ tile_out.px[<<0, 0>>] = tile_in.px[<<0, 0>>]
            /\ tile_out.px[<<w + 1, 0>>] = tile_in.px[<<w - 1, 0>>]
            /\ tile_out.px[<<0, h + 1>>] = tile_in.px[<<0, h - 1>>]
            /\ tile_out.px[<<w + 1, h + 1>>] = tile_in.px[<<w - 1, h - 1>>]



(***************************************************************************)
(* Strings and paths.  A string is a sequence of one-character strings, so *)
(* that file names can be split, parsed and formatted as the code does; a  *)
(* path is the sequence of its components below the images directory.      *)
(***************************************************************************)

\* The characters the model's file names use, in byte order.
Alphabet ==
    <<"+", ".", "0", "1", "2", "3", "4", "5", "6", "7", "8", "9", "_",
      "a", "b", "d", "e", "g", "h", "i", "l", "n", "o", "p", "r", "s", "t", "x">>

Byte(c) == CHOOSE i \in 1 .. Len(Alphabet) : Alphabet[i] = c

Digits == <<"0", "1", "2", "3", "4", "5", "6", "7", "8", "9">>

IsDigit(c) == \E i \in 1 .. 10 : Digits[i] = c

DigitVal(c) == (CHOOSE i \in 1 .. 10 : Digits[i] = c) - 1

\* Ord for byte strings: lexicographic, a proper prefix is smaller.
RECURSIVE StrLess(_, _)
StrLess(a, b) ==
    IF b = <<>> THEN FALSE
    ELSE IF a = <<>> THEN TRUE
    ELSE IF Head(a) # Head(b) THEN Byte(Head(a)) < Byte(Head(b))
    ELSE StrLess(Tail(a), Tail(b))

\* Ord for Path: the components are compared in turn.
RECURSIVE PathLess(_, _)
PathLess(a, b) ==
    IF b = <<>> THEN FALSE
    ELSE IF a = <<>> THEN TRUE
    ELSE IF Head(a) # Head(b) THEN StrLess(Head(a), Head(b))
    ELSE PathLess(Tail(a), Tail(b))

\* The position of the last occurrence of c in s, or 0.
RECURSIVE LastIndexOf(_, _)
LastIndexOf(s, c) ==
    IF s = <<>> THEN 0
    ELSE IF s[Len(s)] = c THEN Len(s)
    ELSE LastIndexOf(SubSeq(s, 1, Len(s) - 1), c)

\* The position of the first occurrence of c in s, or 0.
RECURSIVE FirstIndexFrom(_, _, _)
FirstIndexFrom(s, c, i) ==
    IF i > Len(s) THEN 0
    ELSE IF s[i] = c THEN i
    ELSE FirstIndexFrom(s, c, i + 1)

NoStr == <<"?none">>

\* Path::file_name
file_name(path) == path[Len(path)]

\* Path::extension: the part of the file name after its last dot, none when
\* the name has no dot or only a leading one.
extension(path) ==
    LET name == file_name(path)
        dot == LastIndexOf(name, ".")
    IN  IF dot <= 1 THEN NoStr ELSE SubSeq(name, dot + 1, Len(name))

\* Path::file_stem: the file name without its extension.
file_stem(path) ==
    LET name == file_name(path)
        dot == LastIndexOf(name, ".")
    IN  IF dot <= 1 THEN name ELSE SubSeq(name, 1, dot - 1)

\* The decimal digits of n, as format!("{}", n) writes them.
RECURSIVE Decimal(_)
Decimal(n) ==
    IF n < 10 THEN <<Digits[n + 1]>>
    ELSE Decimal(n \div 10) \o <<Digits[(n % 10) + 1]>>

\* format!("{}_{}", file_stem, tile_index)
tile_key(stem, tile_index) == stem \o <<"_">> \o Decimal(tile_index)

None == [some |-> FALSE]
Some(v) == [some |-> TRUE, val |-> v]

\* u32::MAX, as its decimal digits (the value itself is beyond TLC's integers).
U32MaxDigits == <<"4", "2", "9", "4", "9", "6", "7", "2", "9", "5">>

\* The largest tile size the model represents exactly; a larger u32 is kept
\* as this value (every image is narrower, so it slices to no tile either way).
TileSizeCap == 100000

RECURSIVE StripZeros(_)
StripZeros(s) ==
    IF Len(s) > 1 /\ Head(s) = "0" THEN StripZeros(Tail(s)) ELSE s

RECURSIVE DigitsValue(_, _)
DigitsValue(s, acc) ==
    IF s = <<>> THEN acc
    ELSE DigitsValue(Tail(s), acc * 10 + DigitVal(Head(s)))

\* str::parse::<u32>: an optional "+" and then at least one digit, nothing
\* else, the value at most u32::MAX.
parse_u32(s) ==
    LET body == IF s # <<>> /\ Head(s) = "+" THEN Tail(s) ELSE s
        sig == StripZeros(body)
    IN  IF body = <<>> \/ \E i \in 1 .. Len(body) : ~IsDigit(body[i]) THEN None
        ELSE IF Len(sig) > 10 THEN None
        ELSE IF Len(sig) = 10 /\ StrLess(U32MaxDigits, sig) THEN None
        ELSE IF Len(sig) > 5 THEN Some(TileSizeCap)
        ELSE Some(DigitsValue(sig, 0))

\* parse_grid_size_from_name reading the part after the first '_'.
parse_grid_size_after_first_underscore(name) ==
    LET us == FirstIndexFrom(name, "_", 1)
        last == SubSeq(name, us + 1, Len(name))
        x == FirstIndexFrom(last, "x", 1)
    IN  IF x = 0 THEN None
        ELSE LET width == parse_u32(SubSeq(last, 1, x - 1))
                 height == parse_u32(SubSeq(last, x + 1, Len(last)))
             IN  IF width.some /\ height.some
                 THEN Some(<<width.val, height.val>>)
                 ELSE None

\* fn parse_grid_size_from_name(name): the part after the last '_' (the whole
\* name when it has none) is split at its first 'x'; both halves must parse.
parse_grid_size_from_name(name) ==
    LET us == LastIndexOf(name, "_")
        last == SubSeq(name, us + 1, Len(name))
        x == FirstIndexFrom(last, "x", 1)
    IN  IF x = 0 THEN None
        ELSE LET width == parse_u32(SubSeq(last, 1, x - 1))
                 height == parse_u32(SubSeq(last, x + 1, Len(last)))
             IN  IF width.some /\ height.some
                 THEN Some(<<width.val, height.val>>)
                 ELSE None

ATLAS_NAME == <<"a", "t", "l", "a", "s", ".", "p", "n", "g">>
TILESETS_DIR_NAME == <<"t", "i", "l", "e", "s", "e", "t", "s">>
DEFAULT_TILE_SIZE == 16
PNG == <<"p", "n", "g">>


(***************************************************************************)
(* The images directory.  Catalog lists the entries that can appear under  *)
(* assets/images; tree.ent[i] is entry i's mtime, or Absent.               *)
(***************************************************************************)

\* An opaque test pattern with one fully transparent, coloured pixel.
Pattern(w, h, seed) ==
    [w |-> w, h |-> h,
     px |-> [p \in Coords(w, h) |->
               IF p = <<0, 0>> THEN <<1, 0>>
               ELSE <<1 + ((p[1] + 2 * p[2] + seed) % 3), 255>>]]

Catalog ==
    << \* hero.png: a flat sprite
       [path |-> << <<"h", "e", "r", "o", ".", "p", "n", "g">> >>,
        dir |-> FALSE, img |-> Pattern(2, 2, 0)],
       \* a/hero.png: a flat sprite with the same stem in a subdirectory
       [path |-> << <<"a">>, <<"h", "e", "r", "o", ".", "p", "n", "g">> >>,
        dir |-> FALSE, img |-> Pattern(1, 2, 1)],
       \* tilesets/t_1x2.png: 3 columns and 2 rows of 1x2 tiles
       [path |-> << TILESETS_DIR_NAME, <<"t", "_", "1", "x", "2", ".", "p", "n", "g">> >>,
        dir |-> FALSE, img |-> Pattern(3, 4, 2)],
       \* tilesets/big_2045x1.png: one tile too wide for the atlas once extruded
       [path |-> << TILESETS_DIR_NAME,
                    <<"b", "i", "g", "_", "2", "0", "4", "5", "x", "1", ".", "p", "n", "g">> >>,
        dir |-> FALSE, img |-> Pattern(2045, 1, 0)],
       \* atlas.png: a source image that carries the atlas's file name
       [path |-> << ATLAS_NAME >>, dir |-> FALSE, img |-> Pattern(1, 1, 0)],
       \* notes.txt: not an image
       [path |-> << <<"n", "o", "t", "e", "s", ".", "t", "x", "t">> >>,
        dir |-> FALSE, img |-> NoImage],
       \* d.png: a directory whose name ends in .png
       [path |-> << <<"d", ".", "p", "n", "g">> >>, dir |-> TRUE, img |-> NoImage],
       \* tilesets/t_2x2.png: 3 x 5 pixels, one column and two rows of 2x2
       \* tiles with a column and a row of pixels left over
       [path |-> << TILESETS_DIR_NAME, <<"t", "_", "2", "x", "2", ".", "p", "n", "g">> >>,
        dir |-> FALSE, img |-> Pattern(3, 5, 1)]
    >>

Entries == 1 .. Len(Catalog)

Present(t) == {i \in Entries : t.ent[i] # Absent}

\* The orders in which WalkDir may enumerate the entries (the directories
\* above them, which every caller skips, are left out).
WalkOrders(t) ==
    LET S == Present(t)
        n == Cardinality(S)
    IN  {o \in [1 .. n -> S] : \A i, j \in 1 .. n : i # j => o[i] # o[j]}

\* paths.sort(): insertion of each path in turn into the sorted prefix.
RECURSIVE InsertSorted(_, _)
InsertSorted(sorted, i) ==
    IF sorted = <<>> THEN <<i>>
    ELSE IF PathLess(Catalog[i].path, Catalog[Head(sorted)].path)
         THEN <<i>> \o sorted
         ELSE <<Head(sorted)>> \o InsertSorted(Tail(sorted), i)

RECURSIVE SortPaths(_)
SortPaths(paths) ==
    IF paths = <<>> THEN <<>>
    ELSE InsertSorted(SortPaths(SubSeq(paths, 1, Len(paths) - 1)), paths[Len(paths)])

\* The loop of get_sorted_image_files: the walked entries that are no
\* directory, are not named atlas.png and have the extension png.
RECURSIVE CollectPng(_)
CollectPng(order) ==
    IF order = <<>> THEN <<>>
    ELSE LET e == Catalog[Head(order)]
             rest == CollectPng(Tail(order))
         IN  IF e.dir THEN rest
             ELSE IF file_name(e.path) = ATLAS_NAME THEN rest
             ELSE IF extension(e.path) = PNG THEN <<Head(order)>> \o rest
             ELSE rest

\* dir.exists() / source_dir.exists(): Path::exists answers false when the
\* path is absent and also when its metadata cannot be read (t.denied: an
\* ancestor of the images directory cannot be searched).  Every function of
\* the packer asks it before touching the directory.
dir_exists(t) == t.dir /\ ~t.denied

\* get_sorted_image_files without the final sort.
get_sorted_image_files_unsorted(t, order) ==
    IF ~dir_exists(t) THEN <<>> ELSE CollectPng(order)

\* fn get_sorted_image_files(dir): empty when dir does not exist, else the
\* png files of the walk, sorted by path.
get_sorted_image_files(t, order) ==
    IF ~dir_exists(t) THEN <<>> ELSE SortPaths(CollectPng(order))

\* fn should_repack(source_dir, target_file): true when the target is absent,
\* false when the source directory is; else true iff some walked entry that
\* is no directory, is not named atlas.png and has the extension png is
\* newer than the target.
should_repack(t, target) ==
    IF ~target.exists THEN Ok(TRUE)
    ELSE IF ~dir_exists(t) THEN Ok(FALSE)
    ELSE Ok(\E i \in Present(t) :
              /\ ~(Catalog[i].dir \/ file_name(Catalog[i].path) = ATLAS_NAME)
              /\ extension(Catalog[i].path) = PNG
              /\ t.ent[i] > target.mtime)


(***************************************************************************)
(* The bin packer (texture_packer's TexturePacker::new_skyline), which the *)
(* repository uses as a library: modelled from its documented behaviour.   *)
(***************************************************************************)

\* The TexturePackerConfig that pack_atlas builds (no rotation, no outlines,
\* no trimming).
PackerConfig ==
    [max_width |-> 2048, max_height |-> 2048,
     border_padding |-> 2, texture_padding |-> 2]

Rect(x, y, w, h) == [x |-> x, y |-> y, w |-> w, h |-> h]
Right(r) == r.x + r.w - 1
Bottom(r) == r.y + r.h - 1
Contains(outer, r) ==
    /\ outer.x <= r.x /\ Right(outer) >= Right(r)
    /\ outer.y <= r.y /\ Bottom(outer) >= Bottom(r)

\* The area textures may occupy: the limits less the border on every side.
Border(cfg) ==
    Rect(0, 0, cfg.max_width - 2 * cfg.border_padding,
               cfg.max_height - 2 * cfg.border_padding)

\* A skyline segment is [x, y, w]: from column x, w columns are free from
\* row y down.
NewPacker(cfg) ==
    [cfg |-> cfg,
     skylines |-> << [x |-> 0, y |-> 0, w |-> Border(cfg).w] >>,
     frames |-> <<>>]

\* The rectangle a texture gets when placed at the left end of skyline i,
\* resting on the highest skyline it spans; none when it leaves the border.
RECURSIVE can_put(_, _, _, _)
can_put(pk, i, r, width_left) ==
    IF r.y < pk.skylines[i].y
        THEN can_put(pk, i, [r EXCEPT !.y = pk.skylines[i].y], width_left)
    ELSE IF ~Contains(Border(pk.cfg), r) THEN None
    ELSE IF pk.skylines[i].w >= width_left THEN Some(r)
    ELSE can_put(pk, i + 1, r, width_left - pk.skylines[i].w)

\* Whether placement r at skyline i beats the best placement so far: a
\* lower bottom edge, or the same bottom edge on a narrower skyline.
Better(pk, i, r, best) ==
    IF r.some /\ (\/ ~best.some
                  \/ Bottom(r.val) < Bottom(best.val.rect)
                  \/ /\ Bottom(r.val) = Bottom(best.val.rect)
                     /\ pk.skylines[i].w < best.val.width)
    THEN Some([index |-> i, rect |-> r.val, width |-> pk.skylines[i].w])
    ELSE best

\* The best placement over all skylines, the first one on a tie.
RECURSIVE find_skyline(_, _, _, _, _)
find_skyline(pk, w, h, i, best) ==
    IF i > Len(pk.skylines) THEN best
    ELSE find_skyline(pk, w, h, i + 1,
             Better(pk, i, can_put(pk, i, Rect(pk.skylines[i].x, 0, w, h), w), best))

\* After the new segment at position i - 1: the following segments that it
\* covers are removed, the one it partly covers is shortened.
RECURSIVE shrink_after(_, _)
shrink_after(sk, i) ==
    IF i > Len(sk) \/ sk[i].x > sk[i - 1].x + sk[i - 1].w - 1 THEN sk
    ELSE IF sk[i].w <= sk[i - 1].x + sk[i - 1].w - sk[i].x
        THEN shrink_after(SubSeq(sk, 1, i - 1) \o SubSeq(sk, i + 1, Len(sk)), i)
    ELSE [sk EXCEPT ![i] = [x |-> sk[i - 1].x + sk[i - 1].w, y |-> sk[i].y,
                            w |-> sk[i].w - (sk[i - 1].x + sk[i - 1].w - sk[i].x)]]

\* The placed rectangle becomes a skyline segment above it.
split(sk, index, rect) ==
    shrink_after(SubSeq(sk, 1, index - 1)
                     \o << [x |-> rect.x, y |-> Bottom(rect) + 1, w |-> rect.w] >>
                     \o SubSeq(sk, index, Len(sk)),
                 index + 1)

\* Neighbouring segments of equal height become one.
RECURSIVE merge(_, _)
merge(sk, i) ==
    IF i > Len(sk) THEN sk
    ELSE IF sk[i - 1].y = sk[i].y
         THEN merge(SubSeq(sk, 1, i - 2)
                        \o << [sk[i - 1] EXCEPT !.w = sk[i - 1].w + sk[i].w] >>
                        \o SubSeq(sk, i + 1, Len(sk)), i)
         ELSE merge(sk, i + 1)

\* The packer after the texture took the placement found: its frame is the
\* placement shifted by the border padding, without the texture padding, and
\* replaces any frame stored under the same key.
Place(pk, key, img, found) ==
    IF ~found.some THEN Err("PackError", key)
    ELSE Ok([pk EXCEPT
               !.skylines = merge(split(pk.skylines, found.val.index, found.val.rect), 2),
               !.frames = (key :> Rect(found.val.rect.x + pk.cfg.border_padding,
                                       found.val.rect.y + pk.cfg.border_padding,
                                       img.w, img.h)) @@ pk.frames])

\* TexturePacker::pack_own(key, texture): the texture, widened by the
\* texture padding, is placed on the skyline; an error when no skyline
\* takes it.
pack_own(pk, key, img) ==
    Place(pk, key, img,
          find_skyline(pk, img.w + pk.cfg.texture_padding,
                       img.h + pk.cfg.texture_padding, 1, None))

RECURSIVE MaxOver(_, _)
MaxOver(S, acc) ==
    IF S = {} THEN acc
    ELSE MaxOver(S \ {CHOOSE v \in S : TRUE}, Max(acc, CHOOSE v \in S : TRUE))

\* TexturePacker::width and height: the extent of the frames plus the border.
packer_width(pk) ==
    IF DOMAIN pk.frames = {} THEN 0
    ELSE MaxOver({Right(pk.frames[k]) : k \in DOMAIN pk.frames}, 0)
             + 1 + pk.cfg.border_padding

packer_height(pk) ==
    IF DOMAIN pk.frames = {} THEN 0
    ELSE MaxOver({Bottom(pk.frames[k]) : k \in DOMAIN pk.frames}, 0)
             + 1 + pk.cfg.border_padding

(***************************************************************************)
(* packer.rs: process_images, write_atlas, pack_atlas                      *)
(***************************************************************************)

\* The state process_images works on: the packer, the extruded_sprites set,
\* the (key, image) pairs packed so far, and the result.
PackState(pk) == [pk |-> pk, extruded |-> {}, inserted |-> <<>>, res |-> Ok(TRUE)]

\* path.starts_with(&ctx.tilesets_dir)
is_tileset(path) == Len(path) >= 1 /\ path[1] = TILESETS_DIR_NAME

\* The "?" on pack_own's result: the packer moves on, or process_images
\* returns the BuildError naming the key.
Packed(st, key, img, what, from, r) ==
    IF r.ok
    THEN [st EXCEPT !.pk = r.val,
                    !.inserted = Append(@, [key |-> key, img |-> img, from |-> from])]
    ELSE [st EXCEPT !.res = Err("BuildError", <<what, key>>)]

\* packer.pack_own(key, image).map_err(..)?
PackOne(st, key, img, what, from) ==
    Packed(st, key, img, what, from, pack_own(st.pk, key, img))

\* extruded_sprites.insert(key), reached when the tile was packed.
MarkExtruded(st, key) ==
    IF st.res.ok THEN [st EXCEPT !.extruded = @ \cup {key}] ELSE st

\* The body of the tile loops with the tile index taken column-major.
TileStepColumnMajor(st, id, img, stem, tile_w, tile_h, cols, rows, x, y) ==
    MarkExtruded(
        PackOne(st, tile_key(stem, y + (x * rows)),
                extrude_tile(flip_vertical(
                    crop_imm(img, x * tile_w, y * tile_h, tile_w, tile_h))),
                "tile", [file |-> id, x |-> x, y |-> y]),
        tile_key(stem, y + (x * rows)))

\* The body of the loops "for y in 0..rows, for x in 0..cols": crop, flip,
\* extrude, pack under "<stem>_<x + y*cols>", record the key as extruded.
TileStep(st, id, img, stem, tile_w, tile_h, cols, rows, x, y) ==
    MarkExtruded(
        PackOne(st, tile_key(stem, x + (y * cols)),
                extrude_tile(flip_vertical(
                    crop_imm(img, x * tile_w, y * tile_h, tile_w, tile_h))),
                "tile", [file |-> id, x |-> x, y |-> y]),
        tile_key(stem, x + (y * cols)))

\* The two tile loops, row by row: n counts the iterations done.
RECURSIVE TileLoops(_, _, _, _, _, _, _, _, _)
TileLoops(st, id, img, stem, tile_w, tile_h, cols, rows, n) ==
    IF ~st.res.ok \/ n >= cols * rows THEN st
    ELSE TileLoops(TileStep(st, id, img, stem, tile_w, tile_h, cols, rows,
                            n % cols, n \div cols),
                   id, img, stem, tile_w, tile_h, cols, rows, n + 1)

\* The tileset branch with cols and rows rounded up, so that a partial
\* trailing column or row is cut into tiles too.
SliceTilesetRoundingUp(st, id, img, stem, tile_w, tile_h) ==
    IF tile_w = 0 \/ tile_h = 0 THEN [st EXCEPT !.res = Err("Panic", <<"divide", stem>>)]
    ELSE TileLoops(st, id, img, stem, tile_w, tile_h,
                   (img.w + tile_w - 1) \div tile_w, (img.h + tile_h - 1) \div tile_h, 0)

\* The tileset branch: cols and rows by integer division (which panics on a
\* zero tile size), then the tile loops.
SliceTileset(st, id, img, stem, tile_w, tile_h) ==
    IF tile_w = 0 \/ tile_h = 0 THEN [st EXCEPT !.res = Err("Panic", <<"divide", stem>>)]
    ELSE TileLoops(st, id, img, stem, tile_w, tile_h,
                   img.w \div tile_w, img.h \div tile_h, 0)

\* parse_grid_size_from_name(..).unwrap_or((DEFAULT_TILE_SIZE, DEFAULT_TILE_SIZE))
unwrap_or_default(g) ==
    IF g.some THEN g.val ELSE <<DEFAULT_TILE_SIZE, DEFAULT_TILE_SIZE>>

\* The body of process_images' loop for one decoded image, with a flat
\* sprite extruded and recorded like a tile.
ImageStepExtrudeAll(st, id, path, img, stem, grid) ==
    IF is_tileset(path)
    THEN SliceTileset(st, id, img, stem, grid[1], grid[2])
    ELSE MarkExtruded(PackOne(st, stem, extrude_tile(flip_vertical(img)), "sprite",
                              [file |-> id, x |-> 0, y |-> 0]), stem)

\* The body of process_images' loop for one decoded image: a tileset is
\* sliced; any other image is flipped and packed whole under its file stem.
ImageStep(st, id, path, img, stem, grid) ==
    IF is_tileset(path)
    THEN SliceTileset(st, id, img, stem, grid[1], grid[2])
    ELSE PackOne(st, stem, flip_vertical(img), "sprite",
                 [file |-> id, x |-> 0, y |-> 0])

FileStep(st, id) ==
    ImageStep(st, id, Catalog[id].path, Catalog[id].img, file_stem(Catalog[id].path),
              unwrap_or_default(parse_grid_size_from_name(file_stem(Catalog[id].path))))

\* process_images with a failed pack_own skipped instead of returned.
RECURSIVE process_images_skip_full(_, _)
process_images_skip_full(st, files) ==
    IF files = <<>> THEN st
    ELSE IF ~st.res.ok /\ st.res.err # "BuildError" THEN st
    ELSE process_images_skip_full(FileStep([st EXCEPT !.res = Ok(TRUE)], Head(files)),
                                  Tail(files))

\* fn process_images(ctx, files, packer, extruded_sprites, ui): the files in
\* order, stopping at the first error.
RECURSIVE process_images(_, _)
process_images(st, files) ==
    IF files = <<>> \/ ~st.res.ok THEN st
    ELSE process_images(FileStep(st, Head(files)), Tail(files))

\* The atlas image that write_atlas saves, for a texture of the given size.
AtlasFile(pk, now, width, height) ==
    IF width = 0 \/ height = 0
    THEN Err("BuildError", <<"export", ATLAS_NAME>>)
    ELSE Ok([exists |-> TRUE, mtime |-> now, width |-> width, height |-> height,
             frames |-> pk.frames])

\* fn write_atlas(ctx, packer, ui): ImageExporter::export refuses a texture
\* of zero width or height; else the image is saved to atlas.png.
write_atlas(pk, now) == AtlasFile(pk, now, packer_width(pk), packer_height(pk))

\* assets::generate_sprite_metadata(packer, width, height, extruded_sprites):
\* the record of every key's rect, with the original (pre-extrusion) size.
generate_sprite_metadata(pk, width, height, extruded) ==
    [exists |-> TRUE, width |-> width, height |-> height,
     sprites |-> [k \in DOMAIN pk.frames |->
                    [rect |-> pk.frames[k],
                     extruded |-> k \in extruded,
                     source_size |->
                         IF k \in extruded
                         THEN <<pk.frames[k].w - 2, pk.frames[k].h - 2>>
                         ELSE <<pk.frames[k].w, pk.frames[k].h>>]]]

\* What a pack_atlas call leaves behind: the two outputs on disk, and the
\* record of the call.
PackOutcome(at, mt, verbose, stale, t, st, res, wrote) ==
    [atlas |-> at, meta |-> mt,
     run |-> [called |-> TRUE, verbose |-> verbose, stale |-> stale,
              snapshot |-> [dir |-> t.dir, denied |-> t.denied,
                            files |-> IF dir_exists(t) THEN Present(t) ELSE {}],
              inserted |-> st.inserted, extruded |-> st.extruded,
              frames |-> st.pk.frames, res |-> res, wrote |-> wrote]]

\* pack_atlas after write_atlas: its error is returned, else the metadata
\* is generated from the packer.
AfterWrite(at, mt, verbose, stale, t, st, out) ==
    IF ~out.ok THEN PackOutcome(at, mt, verbose, stale, t, st, out, FALSE)
    ELSE PackOutcome(out.val,
                     generate_sprite_metadata(st.pk, out.val.width, out.val.height,
                                              st.extruded),
                     verbose, stale, t, st, Ok(TRUE), TRUE)

\* pack_atlas after process_images: its error is returned before anything
\* is written, else the atlas is written.
AfterProcess(at, mt, verbose, stale, t, st, now) ==
    IF ~st.res.ok THEN PackOutcome(at, mt, verbose, stale, t, st, st.res, FALSE)
    ELSE AfterWrite(at, mt, verbose, stale, t, st, write_atlas(st.pk, now))

\* pack_atlas after should_repack: "if !should_repack(..)? && ui.verbose"
\* returns Ok early; every other case packs.
AfterGate(t, at, mt, verbose, order, now, stale) ==
    IF ~stale.ok
    THEN PackOutcome(at, mt, verbose, FALSE, t, PackState(NewPacker(PackerConfig)),
                     stale, FALSE)
    ELSE IF ~stale.val /\ verbose
    THEN PackOutcome(at, mt, verbose, FALSE, t, PackState(NewPacker(PackerConfig)),
                     Ok(TRUE), FALSE)
    ELSE AfterProcess(at, mt, verbose, stale.val, t,
                      process_images(PackState(NewPacker(PackerConfig)),
                                     get_sorted_image_files(t, order)),
                      now)

\* pub fn pack_atlas(assets_dir, atlas_dir, ui), called at time now with the
\* directory walk enumerating in the given order.
pack_atlas(t, at, mt, verbose, order, now) ==
    AfterGate(t, at, mt, verbose, order, now, should_repack(t, at))

\* Bounds of PackSpec: the entries present at once, and the number of edits
\* of the images directory (each at its own clock tick).
MaxFiles == 2
MaxPackClock == 1

PackInit ==
    /\ clock = 0
    /\ \E e \in [Entries -> {Absent, 0}], d \in BOOLEAN :
           /\ Cardinality({i \in Entries : e[i] # Absent}) <= MaxFiles
           /\ ~d => \A i \in Entries : e[i] = Absent
           /\ tree = [dir |-> d, denied |-> FALSE, ent |-> e]
    /\ atlas = NoAtlas
    /\ meta = NoMeta
    /\ run = NoCall
    /\ src_mtime = Absent /\ out_mtime = Absent
    /\ last_touch = "src" /\ gate = NoCall
    /\ tile_in = NoImage /\ tile_out = NoImage
    /\ mx = NoCall /\ proc = NoCall /\ sh = NoCall /\ bd = NoCall /\ gr = NoCall /\ ini = NoCall /\ pj = NoCall

\* An entry is created (with the images directory, if need be) or rewritten,
\* at a later time than every earlier write.
WriteFile(i) ==
    /\ clock < MaxPackClock
    /\ ~tree.denied
    /\ Cardinality(Present(tree) \cup {i}) <= MaxFiles
    /\ clock' = clock + 1
    /\ tree' = [tree EXCEPT !.dir = TRUE, !.ent[i] = clock + 1]
    /\ UNCHANGED <<gateVars, atlas, meta, run, tileVars, laterVars>>

RemoveFile(i) ==
    /\ clock < MaxPackClock
    /\ ~tree.denied
    /\ tree.ent[i] # Absent
    /\ clock' = clock + 1
    /\ tree' = [tree EXCEPT !.ent[i] = Absent]
    /\ UNCHANGED <<gateVars, atlas, meta, run, tileVars, laterVars>>

\* The empty images directory is removed.
RemoveImagesDir ==
    /\ tree.dir /\ ~tree.denied
    /\ Present(tree) = {}
    /\ tree' = [tree EXCEPT !.dir = FALSE]
    /\ UNCHANGED <<clock, gateVars, atlas, meta, run, tileVars, laterVars>>

\* Access to the images directory is taken away (an ancestor loses its
\* search permission, so that stat of the directory fails) or given back.
\* Nothing in the directory changes.
ChmodImagesDir ==
    /\ tree.dir
    /\ tree' = [tree EXCEPT !.denied = ~@]
    /\ UNCHANGED <<clock, gateVars, atlas, meta, run, tileVars, laterVars>>

\* pack_atlas's outputs reach the disk.
Commit(o) ==
    /\ atlas' = o.atlas
    /\ meta' = o.meta
    /\ run' = o.run
    /\ UNCHANGED <<clock, gateVars, tree, tileVars, laterVars>>

\* prepare_resources calls pack_atlas.
PackAtlas(verbose, order) ==
    Commit(pack_atlas(tree, atlas, meta, verbose, order, clock))

PackNext ==
    \/ \E i \in Entries : WriteFile(i)
    \/ \E i \in Entries : RemoveFile(i)
    \/ RemoveImagesDir
    \/ ChmodImagesDir
    \/ \E verbose \in BOOLEAN, order \in WalkOrders(tree) : PackAtlas(verbose, order)

PackSpec == PackInit /\ [][PackNext]_vars


(***************************************************************************)
(* Claims about pack_atlas.  run is the record of the last call.           *)
(***************************************************************************)

PackAtlasStep(verbose) == \E order \in WalkOrders(tree) : PackAtlas(verbose, order)

\* The last call went past the staleness gate.
Repacked(r) == r.called /\ (r.stale \/ ~r.verbose)

\* The last call went through process_images without an error.
Processed(r) ==
    /\ Repacked(r)
    /\ r.res.ok \/ (r.res.err = "BuildError" /\ r.res.msg[1] = "export")

\* The image files of the directory the last call saw.
IsImageFile(i) ==
    /\ ~Catalog[i].dir
    /\ file_name(Catalog[i].path) # ATLAS_NAME
    /\ extension(Catalog[i].path) = PNG

\* The insertions that came from file id.
InsertedFrom(r, id) == SelectSeq(r.inserted, LAMBDA e : e.from.file = id)

\* C2: whenever should_repack reports the atlas not stale, pack_atlas
\* returns Ok without repacking, whatever the verbose setting: atlas.png and
\* the sprite metadata are left unchanged.
C2_FreshAtlasIsNotRepacked ==
    [][\A verbose \in BOOLEAN :
         (PackAtlasStep(verbose) /\ should_repack(tree, atlas) = Ok(FALSE))
             => /\ run'.res = Ok(TRUE)
                /\ ~run'.wrote
                /\ atlas' = atlas
                /\ meta' = meta]_vars

\* C3: should_repack is true when the output is absent, and otherwise
\* exactly when some regular file with extension png in the tree (the output
\* file, which lies outside the tree, is no such file) is strictly newer
\* than the output.
C3_RepackIffNewerPng ==
    should_repack(tree, atlas) =
        Ok(\/ ~atlas.exists
           \/ \E i \in Present(tree) :
                  /\ ~Catalog[i].dir
                  /\ extension(Catalog[i].path) = PNG
                  /\ tree.ent[i] > atlas.mtime)

\* C5: within one pack_atlas run no two inserted images share a key.
C5_InsertedKeysUnique ==
    run.called =>
        \A i, j \in 1 .. Len(run.inserted) :
            i # j => run.inserted[i].key # run.inserted[j].key

\* The tile size the file name of tileset id carries, or the default.
TileSizeOf(id) ==
    unwrap_or_default(parse_grid_size_from_name(file_stem(Catalog[id].path)))

\* Tile n (counted from 0) of tileset id, cut at column x and row y of a
\* grid of cols columns of w x h tiles: its place, key and image.
IsTileAt(e, id, n, cols, w, h) ==
    /\ e.from.x = n % cols
    /\ e.from.y = n \div cols
    /\ e.key = file_stem(Catalog[id].path) \o <<"_">> \o Decimal(e.from.x + e.from.y * cols)
    /\ e.img = extrude_tile(flip_vertical(
                   crop_imm(Catalog[id].img, e.from.x * w, e.from.y * h, w, h)))

TilesInRowMajorOrder(tiles, id, cols, rows, w, h) ==
    /\ Len(tiles) = cols * rows
    /\ \A n \in 1 .. Len(tiles) : IsTileAt(tiles[n], id, n - 1, cols, w, h)

\* C6: a tileset of pixel size (cols*W, rows*H) whose name carries the grid
\* WxH is sliced into exactly cols*rows tiles; the tile at column x, row y
\* has the key "<stem>_<x + y*cols>", so the keys run from "<stem>_0" to
\* "<stem>_<cols*rows - 1>" in row-major order.
C6_TilesetSlicedRowMajor ==
    Processed(run) =>
        \A id \in run.snapshot.files :
            (/\ IsImageFile(id)
             /\ is_tileset(Catalog[id].path)
             /\ parse_grid_size_from_name(file_stem(Catalog[id].path)).some
             /\ TileSizeOf(id)[1] > 0 /\ TileSizeOf(id)[2] > 0
             /\ Catalog[id].img.w % TileSizeOf(id)[1] = 0
             /\ Catalog[id].img.h % TileSizeOf(id)[2] = 0)
            => TilesInRowMajorOrder(InsertedFrom(run, id), id,
                                    Catalog[id].img.w \div TileSizeOf(id)[1],
                                    Catalog[id].img.h \div TileSizeOf(id)[2],
                                    TileSizeOf(id)[1], TileSizeOf(id)[2])

\* A run sliced the 3 x 2 tileset next to another image.
C6_Witness ==
    /\ Processed(run)
    /\ run.snapshot.files = {1, 3}
    /\ Len(InsertedFrom(run, 3)) = 6
    /\ \E n \in 1 .. Len(run.inserted) :
           /\ run.inserted[n].from = [file |-> 3, x |-> 1, y |-> 1]
           /\ run.inserted[n].key = <<"t", "_", "1", "x", "2", "_", "4">>

\* The sub-image of its file that insertion e was made from.
SubImageOf(e) ==
    IF is_tileset(Catalog[e.from.file].path)
    THEN crop_imm(Catalog[e.from.file].img,
                  e.from.x * TileSizeOf(e.from.file)[1],
                  e.from.y * TileSizeOf(e.from.file)[2],
                  TileSizeOf(e.from.file)[1], TileSizeOf(e.from.file)[2])
    ELSE Catalog[e.from.file].img

IsFlat(e) == ~is_tileset(Catalog[e.from.file].path)

\* C8: every sub-image inserted, tile or flat sprite, is flipped and then
\* extruded; a flat sprite of size (w, h) is packed under its file stem
\* with stored size (w+2, h+2) and is recorded as extruded.
C8_EverySubImageExtruded ==
    run.called =>
        \A n \in 1 .. Len(run.inserted) :
            /\ run.inserted[n].img = extrude_tile(flip_vertical(SubImageOf(run.inserted[n])))
            /\ run.inserted[n].img.w = SubImageOf(run.inserted[n]).w + 2
            /\ run.inserted[n].img.h = SubImageOf(run.inserted[n]).h + 2
            /\ run.inserted[n].key \in run.extruded
            /\ IsFlat(run.inserted[n]) =>
                   run.inserted[n].key = file_stem(Catalog[run.inserted[n].from.file].path)

\* C8: every tileset tile inserted is flipped and then extruded, stored
\* two pixels larger each way and recorded as extruded; a flat sprite of
\* size (w, h) is only flipped: it is packed under its file stem with stored
\* size (w, h), and only the tiles' keys are recorded as extruded.
C8_TilesExtrudedSpritesFlipped ==
    run.called =>
        /\ \A n \in 1 .. Len(run.inserted) :
               IF IsFlat(run.inserted[n])
               THEN /\ run.inserted[n].img = flip_vertical(SubImageOf(run.inserted[n]))
                    /\ run.inserted[n].img.w = SubImageOf(run.inserted[n]).w
                    /\ run.inserted[n].img.h = SubImageOf(run.inserted[n]).h
                    /\ run.inserted[n].key =
                           file_stem(Catalog[run.inserted[n].from.file].path)
               ELSE /\ run.inserted[n].img =
                           extrude_tile(flip_vertical(SubImageOf(run.inserted[n])))
                    /\ run.inserted[n].img.w = SubImageOf(run.inserted[n]).w + 2
                    /\ run.inserted[n].img.h = SubImageOf(run.inserted[n]).h + 2
                    /\ run.inserted[n].key \in run.extruded
        /\ run.extruded = {run.inserted[n].key :
                              n \in {m \in 1 .. Len(run.inserted) : ~IsFlat(run.inserted[m])}}

\* A run packed hero.png and the tiles of a tileset.
C8_Witness ==
    /\ run.called
    /\ run.wrote
    /\ \E n \in 1 .. Len(run.inserted) :
           /\ run.inserted[n].from.file = 1
           /\ run.inserted[n].key = <<"h", "e", "r", "o">>
           /\ run.inserted[n].img.w = 2 /\ run.inserted[n].img.h = 2
    /\ \E n \in 1 .. Len(run.inserted) : ~IsFlat(run.inserted[n])
    /\ <<"h", "e", "r", "o">> \notin run.extruded

\* The images directory as the last call saw it.
SnapshotTree(r) ==
    [dir |-> r.snapshot.dir, denied |-> r.snapshot.denied,
     ent |-> [i \in Entries |-> IF i \in r.snapshot.files THEN 0 ELSE Absent]]

\* A pack of the same directory from scratch, the walk taken in the given order.
Rerun(r, order) == pack_atlas(SnapshotTree(r), NoAtlas, NoMeta, r.verbose, order, 0)

SameOutcome(r, o) ==
    /\ o.run.inserted = r.inserted
    /\ o.run.extruded = r.extruded
    /\ o.run.frames = r.frames
    /\ o.run.res = r.res
    /\ o.run.wrote = r.wrote
    /\ r.wrote => /\ o.meta = meta
                  /\ o.atlas = [atlas EXCEPT !.mtime = 0]

\* C9: packing is deterministic: a pack of the same source files makes
\* the same sequence of (key, image) insertions whatever order the directory
\* walk enumerates them in, and so yields the same atlas and the same
\* sprite-rect table.
C9_PackingIgnoresWalkOrder ==
    Repacked(run) =>
        \A order \in WalkOrders(SnapshotTree(run)) : SameOutcome(run, Rerun(run, order))

\* A run packed two image files, which a walk can enumerate in two orders.
C9_Witness ==
    /\ Repacked(run)
    /\ run.wrote
    /\ run.snapshot.files = {1, 3}
    /\ Len(run.inserted) = 7
    /\ run.inserted[1].from.file = 1

\* The number of sub-images file id holds: one for a flat sprite, the tiles
\* of the grid for a tileset.
SubImageCount(id) ==
    IF is_tileset(Catalog[id].path)
    THEN (Catalog[id].img.w \div TileSizeOf(id)[1]) * (Catalog[id].img.h \div TileSizeOf(id)[2])
    ELSE 1

\* The image files of the run that have sub-images that were not inserted.
Unpacked(r) ==
    {id \in {i \in r.snapshot.files : IsImageFile(i)} :
        Len(InsertedFrom(r, id)) < SubImageCount(id)}

\* The error that names the first sub-image of file id that was not inserted.
NamesNextOf(r, id) ==
    IF is_tileset(Catalog[id].path)
    THEN Err("BuildError",
             <<"tile", file_stem(Catalog[id].path) \o <<"_">>
                           \o Decimal(Len(InsertedFrom(r, id)))>>)
    ELSE Err("BuildError", <<"sprite", file_stem(Catalog[id].path)>>)

\* C10: if a tile or sprite cannot be placed, pack_atlas returns a build
\* error naming it and writes neither atlas.png nor the sprite metadata in
\* that run; an atlas is written only when every sub-image was placed.
\* (The calls of pack_atlas are the steps that leave the images directory
\* and the clock as they are.)
C10_PackFailureIsFatal ==
    [][(UNCHANGED <<clock, tree>> /\ Repacked(run'))
           => IF Unpacked(run') = {}
              THEN run'.wrote <=> run'.res.ok
              ELSE /\ \E id \in Unpacked(run') :
                          /\ run'.res = NamesNextOf(run', id)
                          /\ \A other \in Unpacked(run') \ {id} :
                                 InsertedFrom(run', other) = <<>>
                   /\ ~run'.wrote
                   /\ atlas' = atlas
                   /\ meta' = meta]_vars

\* A run failed on the tile that is too wide, and left the atlas of an
\* earlier run in place.
C10_Witness ==
    /\ run.called
    /\ ~run.res.ok
    /\ run.res = Err("BuildError",
                     <<"tile", <<"b", "i", "g", "_", "2", "0", "4", "5", "x", "1", "_", "0">> >>)
    /\ ~run.wrote
    /\ 1 \in run.snapshot.files
    /\ atlas.exists
    /\ DOMAIN atlas.frames = {<<"h", "e", "r", "o">>}


(***************************************************************************)
(* sokol.rs: the native-library build matrix.  File and folder names are   *)
(* strings (sequences of characters), built as the format! calls build     *)
(* them; a path is the sequence of its components below the sokol          *)
(* directory.                                                              *)
(***************************************************************************)

\* const SOKOL_MODULES
SOKOL_MODULES ==
    << <<"s", "o", "k", "o", "l", "_", "l", "o", "g">>,
       <<"s", "o", "k", "o", "l", "_", "g", "f", "x">>,
       <<"s", "o", "k", "o", "l", "_", "a", "p", "p">>,
       <<"s", "o", "k", "o", "l", "_", "g", "l", "u", "e">>,
       <<"s", "o", "k", "o", "l", "_", "t", "i", "m", "e">>,
       <<"s", "o", "k", "o", "l", "_", "a", "u", "d", "i", "o">>,
       <<"s", "o", "k", "o", "l", "_", "d", "e", "b", "u", "g", "t", "e", "x", "t">>,
       <<"s", "o", "k", "o", "l", "_", "s", "h", "a", "p", "e">>,
       <<"s", "o", "k", "o", "l", "_", "g", "l">> >>

\* compile_sokol_wasm: let modules
WASM_MODULES ==
    << <<"l", "o", "g">>,
       <<"g", "f", "x">>,
       <<"a", "p", "p">>,
       <<"g", "l", "u", "e">>,
       <<"t", "i", "m", "e">>,
       <<"a", "u", "d", "i", "o">>,
       <<"d", "e", "b", "u", "g", "t", "e", "x", "t">>,
       <<"s", "h", "a", "p", "e">>,
       <<"g", "l">> >>

\* The matrix is built for the first MaxModules modules of the two lists
\* (sokol_app, whose library is the marker, is the third).
MaxModules == 2
Modules == SubSeq(SOKOL_MODULES, Max(1, 4 - MaxModules), Max(3, MaxModules))
WasmModules == SubSeq(WASM_MODULES, Max(1, 4 - MaxModules), Max(3, MaxModules))

\* The string literals of sokol.rs and of compile_shaders, as character
\* sequences.
Lit ==
    [ windows |-> <<"w", "i", "n", "d", "o", "w", "s">>,
      macos |-> <<"m", "a", "c", "o", "s">>,
      linux |-> <<"l", "i", "n", "u", "x">>,
      freebsd |-> <<"f", "r", "e", "e", "b", "s", "d">>,
      x64 |-> <<"x", "6", "4">>,
      arm64 |-> <<"a", "r", "m", "6", "4">>,
      Debug |-> <<"D", "e", "b", "u", "g">>,
      Release |-> <<"R", "e", "l", "e", "a", "s", "e">>,
      debug |-> <<"d", "e", "b", "u", "g">>,
      release |-> <<"r", "e", "l", "e", "a", "s", "e">>,
      wasm |-> <<"w", "a", "s", "m">>,
      gl |-> <<"g", "l">>,
      sokol |-> <<"s", "o", "k", "o", "l">>,
      app |-> <<"a", "p", "p">>,
      sokol_app |-> <<"s", "o", "k", "o", "l", "_", "a", "p", "p">>,
      odin |-> <<"o", "d", "i", "n">>,
      a |-> <<"a">>,
      o |-> <<"o">>,
      lib |-> <<"l", "i", "b">>,
      obj |-> <<"o", "b", "j">>,
      glsl |-> <<"g", "l", "s", "l">>,
      vert |-> <<"v", "e", "r", "t">>,
      frag |-> <<"f", "r", "a", "g">> ]

\* str::strip_prefix
strip_prefix(s, prefix) ==
    IF Len(s) >= Len(prefix) /\ SubSeq(s, 1, Len(prefix)) = prefix
    THEN Some(SubSeq(s, Len(prefix) + 1, Len(s)))
    ELSE None

\* module.strip_prefix("sokol_").unwrap_or(module)
folder_name(module) ==
    IF strip_prefix(module, <<"s", "o", "k", "o", "l", "_">>).some
    THEN strip_prefix(module, <<"s", "o", "k", "o", "l", "_">>).val
    ELSE module

\* str::to_lowercase, on the letters that occur in profile names.
to_lowercase(s) ==
    [i \in 1 .. Len(s) |-> IF s[i] = "D" THEN "d" ELSE IF s[i] = "R" THEN "r" ELSE s[i]]

\* The parts joined by "_", as the format strings "{}_{}_.." do.
RECURSIVE JoinUnderscore(_)
JoinUnderscore(parts) ==
    IF Len(parts) = 1 THEN parts[1]
    ELSE parts[1] \o <<"_">> \o JoinUnderscore(Tail(parts))

WithExt(stem, ext) == stem \o <<".">> \o ext


\* let backends = match os: the (name, define, suffix) triples, none for an
\* unsupported OS.
Backends(os) ==
    IF os = Lit.windows
    THEN << [name |-> "D3D11", define |-> "SOKOL_D3D11", suffix |-> <<"d", "3", "d", "1", "1">>],
            [name |-> "GL", define |-> "SOKOL_GLCORE", suffix |-> Lit.gl] >>
    ELSE IF os = Lit.macos
    THEN << [name |-> "Metal", define |-> "SOKOL_METAL", suffix |-> <<"m", "e", "t", "a", "l">>],
            [name |-> "GL", define |-> "SOKOL_GLCORE", suffix |-> Lit.gl] >>
    ELSE IF os = Lit.linux
    THEN << [name |-> "GL", define |-> "SOKOL_GLCORE", suffix |-> Lit.gl] >>
    ELSE << >>

\* let profile_suffix = if is_debug { "debug" } else { "release" }
profile_suffix(is_debug) == IF is_debug THEN Lit.debug ELSE Lit.release

\* check_path: "app/sokol_app_{os}_{arch}_{suffix}_{profile}.{lib|a}"
check_path(os, arch, is_debug) ==
    << Lit.app,
       WithExt(JoinUnderscore(<<Lit.sokol_app, os, arch, Backends(os)[1].suffix,
                                to_lowercase(IF is_debug THEN Lit.Debug ELSE Lit.Release)>>),
               IF os = Lit.windows THEN Lit.lib ELSE Lit.a) >>

\* The object name of build_unix without the backend suffix.
unix_obj_no_suffix(module, suffix, is_debug) ==
    << WithExt(JoinUnderscore(<<module, profile_suffix(is_debug)>>), Lit.o) >>

\* build_unix: obj and lib
unix_obj(module, suffix, is_debug) ==
    << WithExt(JoinUnderscore(<<module, suffix, profile_suffix(is_debug)>>), Lit.o) >>

unix_lib(module, os, arch, suffix, is_debug) ==
    << folder_name(module),
       WithExt(JoinUnderscore(<<module, os, arch, suffix, profile_suffix(is_debug)>>), Lit.a) >>

\* build_windows: obj and lib
windows_obj(module, arch, suffix, is_debug) ==
    << WithExt(JoinUnderscore(<<module, arch, suffix, profile_suffix(is_debug)>>), Lit.obj) >>

windows_lib(module, arch, suffix, is_debug) ==
    << folder_name(module),
       WithExt(JoinUnderscore(<<module, Lit.windows, arch, suffix, profile_suffix(is_debug)>>),
               Lit.lib) >>

\* compile_sokol_wasm: obj_path and out_lib_path
wasm_obj(module, prof_suffix) ==
    << WithExt(JoinUnderscore(<<Lit.sokol, module, prof_suffix>>), Lit.o) >>

wasm_lib(module, prof_suffix) ==
    << module, WithExt(JoinUnderscore(<<Lit.sokol, module, Lit.wasm, Lit.gl, prof_suffix>>), Lit.a) >>

\* let profiles = &[("Debug", "debug", "-g"), ("Release", "release", "-O2 -DNDEBUG")]
WasmProfiles ==
    << [name |-> Lit.Debug, suffix |-> Lit.debug], [name |-> Lit.Release, suffix |-> Lit.release] >>

\* The desktop task list with every module built for the first backend only.
DesktopTasksFirstBackend(os) ==
    [i \in 1 .. Len(Modules) |->
        [module |-> Modules[i], backend |-> Backends(os)[1]]]

\* The task list of the desktop matrix: for module in SOKOL_MODULES, for
\* backend in backends.
DesktopTasks(os) ==
    [i \in 1 .. Len(Modules) * Len(Backends(os)) |->
        [module |-> Modules[((i - 1) \div Len(Backends(os))) + 1],
         backend |-> Backends(os)[((i - 1) % Len(Backends(os))) + 1]]]

\* The web task list with the debug profile only.
WasmTasksDebugOnly ==
    [i \in 1 .. Len(WasmModules) |->
        [module |-> WasmModules[i], profile |-> WasmProfiles[1]]]

\* The task list of the web matrix: for module in modules, for profile in
\* profiles.
WasmTasks ==
    [i \in 1 .. Len(WasmModules) * Len(WasmProfiles) |->
        [module |-> WasmModules[((i - 1) \div Len(WasmProfiles)) + 1],
         profile |-> WasmProfiles[((i - 1) % Len(WasmProfiles)) + 1]]]

\* The tasks of a call, each with its compiler, archiver, backend define,
\* object file and library.
Tasks(os, arch, call) ==
    IF call.web
    THEN [i \in DOMAIN WasmTasks |->
            [module |-> WasmTasks[i].module, folder |-> WasmTasks[i].module,
             cc |-> IF os = Lit.windows THEN "emcc.bat" ELSE "emcc",
             ar |-> IF os = Lit.windows THEN "emar.bat" ELSE "emar",
             define |-> "SOKOL_GLES3",
             obj |-> wasm_obj(WasmTasks[i].module, WasmTasks[i].profile.suffix),
             lib |-> wasm_lib(WasmTasks[i].module, WasmTasks[i].profile.suffix)]]
    ELSE IF os = Lit.windows
    THEN [i \in DOMAIN DesktopTasks(os) |->
            [module |-> DesktopTasks(os)[i].module,
             folder |-> folder_name(DesktopTasks(os)[i].module),
             cc |-> "cl", ar |-> "lib", define |-> DesktopTasks(os)[i].backend.define,
             obj |-> windows_obj(DesktopTasks(os)[i].module, arch,
                                 DesktopTasks(os)[i].backend.suffix, call.debug),
             lib |-> windows_lib(DesktopTasks(os)[i].module, arch,
                                 DesktopTasks(os)[i].backend.suffix, call.debug)]]
    ELSE [i \in DOMAIN DesktopTasks(os) |->
            [module |-> DesktopTasks(os)[i].module,
             folder |-> folder_name(DesktopTasks(os)[i].module),
             cc |-> "clang", ar |-> "ar", define |-> DesktopTasks(os)[i].backend.define,
             obj |-> unix_obj(DesktopTasks(os)[i].module,
                              DesktopTasks(os)[i].backend.suffix, call.debug),
             lib |-> unix_lib(DesktopTasks(os)[i].module, os, arch,
                              DesktopTasks(os)[i].backend.suffix, call.debug)]]

\* The folders a call with clean set purges.
CleanedFolders(call) ==
    IF call.web THEN {WasmModules[i] : i \in DOMAIN WasmModules}
    ELSE {folder_name(Modules[i]) : i \in DOMAIN Modules}

\* fn clean_dir(path): nothing when the directory does not exist; else every
\* entry that has an extension other than "odin" is removed.
clean_dir(files, dirs, folder) ==
    IF folder \notin dirs THEN files
    ELSE {f \in files :
            ~(/\ Len(f) = 2 /\ f[1] = folder
              /\ extension(f) # NoStr
              /\ extension(f) # Lit.odin)}

\* The "if clean" loops: clean_dir on every module's folder.
RECURSIVE clean_all(_, _, _)
clean_all(files, dirs, folders) ==
    IF folders = {} THEN files
    ELSE clean_all(clean_dir(files, dirs, CHOOSE d \in folders : TRUE), dirs,
                   folders \ {CHOOSE d \in folders : TRUE})

(***************************************************************************)
(* sokol.rs: compile_sokol and compile_sokol_wasm as a state machine.      *)
(* One call is a sequential head (probe, checks, skip test, purge), then   *)
(* the tasks of the parallel iterator, each a compiler step followed by an *)
(* archiver step, in any interleaving, then the return.                    *)
(***************************************************************************)

MaxRuns == 2
MaxFailures == 1

\* The builds examined: env::consts::OS, the target architecture, the
\* target and profile of the command line, and whether the checkout holds the
\* sokol directory.
Builds ==
    { [os |-> Lit.macos, arch |-> Lit.arm64, web |-> FALSE, debug |-> TRUE, present |-> TRUE],
      [os |-> Lit.macos, arch |-> Lit.arm64, web |-> FALSE, debug |-> FALSE, present |-> TRUE],
      [os |-> Lit.windows, arch |-> Lit.x64, web |-> FALSE, debug |-> TRUE, present |-> TRUE],
      [os |-> Lit.linux, arch |-> Lit.x64, web |-> FALSE, debug |-> FALSE, present |-> TRUE],
      [os |-> Lit.linux, arch |-> Lit.x64, web |-> FALSE, debug |-> TRUE, present |-> FALSE],
      [os |-> Lit.freebsd, arch |-> Lit.x64, web |-> FALSE, debug |-> TRUE, present |-> TRUE],
      [os |-> Lit.linux, arch |-> Lit.x64, web |-> TRUE, debug |-> FALSE, present |-> TRUE],
      [os |-> Lit.windows, arch |-> Lit.x64, web |-> TRUE, debug |-> TRUE, present |-> FALSE] }

\* What a checkout holds in the module folders before any build: a binding
\* source, a stale artefact and a file without extension.
InitialFiles ==
    { << Lit.app, <<"a", "p", "p", ".", "o", "d", "i", "n">> >>,
      << Lit.app, <<"o", "l", "d", ".", "a">> >>,
      << Lit.app, <<"t", "a", "g", "s">> >> }

\* A call that ends in its sequential head.
Finish(m, call, probes, res, skipped) ==
    [m EXCEPT !.phase = "idle", !.runs = m.runs + 1, !.call = call,
              !.prev = [called |-> m.runs > 0, clean |-> m.call.clean,
                        ok |-> m.res.ok, skipped |-> m.skipped],
              !.pre = m.files, !.invoked = probes, !.built = {},
              !.tasks = <<>>, !.status = <<>>, !.errs = {},
              !.res = res, !.skipped = skipped,
              !.fails = IF res.ok THEN m.fails ELSE m.fails + 1]

\* A call that reaches its parallel iterator, after the purge when clean.
Start(m, call, probes, tasks) ==
    [m EXCEPT !.phase = "running", !.call = call,
              !.prev = [called |-> m.runs > 0, clean |-> m.call.clean,
                        ok |-> m.res.ok, skipped |-> m.skipped],
              !.pre = m.files, !.invoked = probes, !.built = {},
              !.files = IF call.clean
                        THEN clean_all(m.files, m.dirs, CleanedFolders(call))
                        ELSE m.files,
              !.tasks = tasks, !.status = [i \in DOMAIN tasks |-> "todo"], !.errs = {},
              !.skipped = FALSE]

\* compile_sokol_wasm up to the parallel iterator.
compile_sokol_wasm_head(m, call, probe_ok) ==
    IF ~probe_ok
    THEN Finish(m, call, {<<IF m.os = Lit.windows THEN "emcc.bat" ELSE "emcc", 0>>},
                Err("BuildError", <<"not found", "emcc", <<>>>>), FALSE)
    ELSE Start(m, call, {<<IF m.os = Lit.windows THEN "emcc.bat" ELSE "emcc", 0>>},
               Tasks(m.os, m.arch, call))

\* compile_sokol's head with the marker test made before the clean flag is
\* looked at: a clean call skips too when the marker exists.
compile_sokol_head_marker_first(m, call, probe_ok) ==
    IF call.web THEN compile_sokol_wasm_head(m, call, probe_ok)
    ELSE IF m.os = Lit.windows /\ ~probe_ok
    THEN Finish(m, call, {<<"cl", 0>>},
                Err("BuildError", <<"not found", "cl", <<>>>>), FALSE)
    ELSE IF ~m.sokol_dir
    THEN Finish(m, call, IF m.os = Lit.windows THEN {<<"cl", 0>>} ELSE {},
                Err("BuildError", <<"Sokol directory not found", "", <<>>>>), FALSE)
    ELSE IF Backends(m.os) = <<>>
    THEN Finish(m, call, {}, Err("BuildError", <<"Unsupported OS", "", m.os>>), FALSE)
    ELSE IF check_path(m.os, m.arch, call.debug) \in m.files
    THEN Finish(m, call, IF m.os = Lit.windows THEN {<<"cl", 0>>} ELSE {},
                Ok("unit"), TRUE)
    ELSE Start(m, call, IF m.os = Lit.windows THEN {<<"cl", 0>>} ELSE {},
               Tasks(m.os, m.arch, call))

\* compile_sokol up to the parallel iterator.
compile_sokol_head(m, call, probe_ok) ==
    IF call.web THEN compile_sokol_wasm_head(m, call, probe_ok)
    ELSE IF m.os = Lit.windows /\ ~probe_ok
    THEN Finish(m, call, {<<"cl", 0>>},
                Err("BuildError", <<"not found", "cl", <<>>>>), FALSE)
    ELSE IF ~m.sokol_dir
    THEN Finish(m, call, IF m.os = Lit.windows THEN {<<"cl", 0>>} ELSE {},
                Err("BuildError", <<"Sokol directory not found", "", <<>>>>), FALSE)
    ELSE IF Backends(m.os) = <<>>
    THEN Finish(m, call, {}, Err("BuildError", <<"Unsupported OS", "", m.os>>), FALSE)
    ELSE IF ~call.clean /\ check_path(m.os, m.arch, call.debug) \in m.files
    THEN Finish(m, call, IF m.os = Lit.windows THEN {<<"cl", 0>>} ELSE {},
                Ok("unit"), TRUE)
    ELSE Start(m, call, IF m.os = Lit.windows THEN {<<"cl", 0>>} ELSE {},
               Tasks(m.os, m.arch, call))

MatrixInit ==
    /\ \E b \in Builds :
          mx = [os |-> b.os, arch |-> b.arch, web |-> b.web, debug |-> b.debug,
                sokol_dir |-> b.present,
                dirs |-> IF b.present THEN {folder_name(Modules[i]) : i \in DOMAIN Modules}
                        ELSE {},
                files |-> IF b.present THEN InitialFiles ELSE {},
                runs |-> 0, fails |-> 0, phase |-> "idle",
                call |-> [web |-> b.web, debug |-> b.debug, clean |-> FALSE],
                prev |-> [called |-> FALSE, clean |-> FALSE, ok |-> TRUE,
                          skipped |-> FALSE],
                pre |-> {}, invoked |-> {}, built |-> {},
                tasks |-> <<>>, status |-> <<>>, errs |-> {},
                res |-> Ok("unit"), skipped |-> FALSE]
    /\ clock = 0
    /\ src_mtime = Absent /\ out_mtime = Absent /\ last_touch = "none" /\ gate = NoCall
    /\ tree = <<>> /\ atlas = NoAtlas /\ meta = NoMeta /\ run = NoCall
    /\ tile_in = NoImage /\ tile_out = NoImage
    /\ proc = NoCall /\ sh = NoCall /\ bd = NoCall /\ gr = NoCall /\ ini = NoCall /\ pj = NoCall

\* The call of compile_sokol(is_web_target, is_debug, clean, ui) up to the
\* point where it returns early or hands the tasks to the thread pool.
CompileSokol(clean, probe_ok) ==
    /\ mx.phase = "idle"
    /\ mx.runs < MaxRuns
    /\ ~probe_ok => mx.fails < MaxFailures /\ (mx.web \/ mx.os = Lit.windows)
    /\ mx' = compile_sokol_head(mx, [web |-> mx.web, debug |-> mx.debug,
                                     clean |-> clean], probe_ok)
    /\ UNCHANGED <<clock, gateVars, packVars, tileVars, proc, sh, bd, toolVars>>

\* The first half of a task: create_dir_all of the output folder, then the
\* compiler, which leaves the object file in the sokol directory.
TaskCompile(i, outcome) ==
    /\ mx.phase = "running"
    /\ i \in DOMAIN mx.tasks
    /\ mx.status[i] = "todo"
    /\ outcome # "ok" => mx.fails < MaxFailures
    /\ mx' = IF outcome = "mkdir"
             THEN [mx EXCEPT !.status[i] = "failed", !.fails = @ + 1,
                             !.errs = @ \cup {Err("ProcessError",
                                                  <<"Failed to create directory", "", mx.tasks[i].folder>>)}]
             ELSE IF outcome = "spawn"
             THEN [mx EXCEPT !.status[i] = "failed", !.fails = @ + 1,
                             !.sokol_dir = TRUE, !.dirs = @ \cup {mx.tasks[i].folder},
                             !.invoked = @ \cup {<<mx.tasks[i].cc, i>>},
                             !.errs = @ \cup {Err("ProcessError",
                                                  <<"Failed to run", mx.tasks[i].cc, <<>>>>)}]
             ELSE IF outcome = "status"
             THEN [mx EXCEPT !.status[i] = "failed", !.fails = @ + 1,
                             !.sokol_dir = TRUE, !.dirs = @ \cup {mx.tasks[i].folder},
                             !.invoked = @ \cup {<<mx.tasks[i].cc, i>>},
                             !.errs = @ \cup {Err("BuildError",
                                                  <<"Compilation failed for", mx.tasks[i].cc, mx.tasks[i].module>>)}]
             ELSE [mx EXCEPT !.status[i] = "compiled",
                             !.sokol_dir = TRUE, !.dirs = @ \cup {mx.tasks[i].folder},
                             !.invoked = @ \cup {<<mx.tasks[i].cc, i>>},
                             !.files = @ \cup {mx.tasks[i].obj}]
    /\ UNCHANGED <<clock, gateVars, packVars, tileVars, proc, sh, bd, toolVars>>

\* The second half of a task with the object file left behind.
TaskArchiveKeepingObj(i, outcome) ==
    /\ mx.phase = "running"
    /\ i \in DOMAIN mx.tasks
    /\ mx.status[i] = "compiled"
    /\ outcome # "ok" => mx.fails < MaxFailures
    /\ mx' = IF outcome = "ok"
             THEN [mx EXCEPT !.status[i] = "done",
                             !.invoked = @ \cup {<<mx.tasks[i].ar, i>>},
                             !.built = @ \cup {mx.tasks[i].lib},
                             !.files = @ \cup {mx.tasks[i].lib}]
             ELSE [mx EXCEPT !.status[i] = "failed", !.fails = @ + 1,
                             !.invoked = @ \cup {<<mx.tasks[i].ar, i>>},
                             !.errs = @ \cup {Err("BuildError",
                                                  <<"Archive failed for", mx.tasks[i].ar, mx.tasks[i].module>>)}]
    /\ UNCHANGED <<clock, gateVars, packVars, tileVars, proc, sh, bd, toolVars>>

\* The second half of a task: the archiver writes the library, then the
\* object file is removed.
TaskArchive(i, outcome) ==
    /\ mx.phase = "running"
    /\ i \in DOMAIN mx.tasks
    /\ mx.status[i] = "compiled"
    /\ outcome # "ok" => mx.fails < MaxFailures
    /\ mx' = IF outcome = "spawn"
             THEN [mx EXCEPT !.status[i] = "failed", !.fails = @ + 1,
                             !.invoked = @ \cup {<<mx.tasks[i].ar, i>>},
                             !.errs = @ \cup {Err("ProcessError",
                                                  <<"Failed to run", mx.tasks[i].ar, <<>>>>)}]
             ELSE IF outcome = "status"
             THEN [mx EXCEPT !.status[i] = "failed", !.fails = @ + 1,
                             !.invoked = @ \cup {<<mx.tasks[i].ar, i>>},
                             !.errs = @ \cup {Err("BuildError",
                                                  <<"Archive failed for", mx.tasks[i].ar, mx.tasks[i].module>>)}]
             ELSE [mx EXCEPT !.status[i] = "done",
                             !.invoked = @ \cup {<<mx.tasks[i].ar, i>>},
                             !.built = @ \cup {mx.tasks[i].lib},
                             !.files = (@ \cup {mx.tasks[i].lib}) \ {mx.tasks[i].obj}]
    /\ UNCHANGED <<clock, gateVars, packVars, tileVars, proc, sh, bd, toolVars>>

\* The iterator's result with the tasks' errors dropped.
try_for_each_discarding(m, e) ==
    [m EXCEPT !.phase = "idle", !.runs = @ + 1, !.res = Ok("unit")]

\* try_for_each(...)?: the iterator returns once no task is in flight, with
\* one of the errors when a task failed (the tasks not yet begun are then
\* dropped), with Ok when every task completed.
try_for_each(m, e) ==
    [m EXCEPT !.phase = "idle", !.runs = @ + 1, !.res = e]

\* The iterator returning at the first error, with tasks still in flight.
MatrixReturnAbandoning ==
    /\ mx.phase = "running"
    /\ \/ mx.errs # {}
       \/ \A i \in DOMAIN mx.tasks : mx.status[i] = "done"
    /\ \/ /\ mx.errs = {}
          /\ mx' = try_for_each(mx, Ok("unit"))
       \/ \E e \in mx.errs : mx' = try_for_each(mx, e)
    /\ UNCHANGED <<clock, gateVars, packVars, tileVars, proc, sh, bd, toolVars>>

MatrixReturn ==
    /\ mx.phase = "running"
    /\ \A i \in DOMAIN mx.tasks : mx.status[i] # "compiled"
    /\ \/ mx.errs # {}
       \/ \A i \in DOMAIN mx.tasks : mx.status[i] = "done"
    /\ \/ /\ mx.errs = {}
          /\ mx' = try_for_each(mx, Ok("unit"))
       \/ \E e \in mx.errs : mx' = try_for_each(mx, e)
    /\ UNCHANGED <<clock, gateVars, packVars, tileVars, proc, sh, bd, toolVars>>

MatrixNext ==
    \/ \E clean \in BOOLEAN, probe_ok \in BOOLEAN : CompileSokol(clean, probe_ok)
    \/ \E i \in 1 .. 2 * MaxModules, outcome \in {"ok", "mkdir", "spawn", "status"} :
          TaskCompile(i, outcome)
    \/ \E i \in 1 .. 2 * MaxModules, outcome \in {"ok", "spawn", "status"} :
          TaskArchive(i, outcome)
    \/ MatrixReturn

MatrixSpec == MatrixInit /\ [][MatrixNext]_vars

\* The call has returned.
MatrixReturned == mx.phase = "idle" /\ mx.runs > 0

\* '<module folder>/<module>_<os>_<arch>_<backend>_<profile>.<ext>'
PredictedLib(module, backend) ==
    << SubSeq(module, 7, Len(module)),
       module \o <<"_">> \o mx.os \o <<"_">> \o mx.arch \o <<"_">> \o backend \o <<"_">>
          \o (IF mx.call.debug THEN Lit.debug ELSE Lit.release) \o <<".">>
          \o (IF mx.os = Lit.windows THEN Lit.lib ELSE Lit.a) >>

BackendNames ==
    IF mx.os = Lit.windows THEN {<<"d", "3", "d", "1", "1">>, Lit.gl}
    ELSE IF mx.os = Lit.macos THEN {<<"m", "e", "t", "a", "l">>, Lit.gl}
    ELSE {}

PredictedLibs ==
    {PredictedLib(Modules[i], b) : i \in DOMAIN Modules, b \in BackendNames}

\* A desktop run on a two-backend platform that was not skipped and in which
\* every tool succeeded.
FullDesktopRun ==
    /\ MatrixReturned
    /\ ~mx.call.web
    /\ mx.os \in {Lit.windows, Lit.macos}
    /\ ~mx.skipped
    /\ mx.res.ok

\* C11: on a platform with two backends, a desktop run that is not skipped
\* and in which every tool invocation succeeds produces exactly |M| * 2
\* libraries, one per (module, backend) pair, each at
\* '<module folder>/<module>_<os>_<arch>_<backend>_<profile>.<ext>', and each
\* is on disk when the call returns.
C11_MatrixComplete ==
    FullDesktopRun =>
        /\ mx.built = PredictedLibs
        /\ Cardinality(mx.built) = Len(Modules) * 2
        /\ mx.built \subseteq mx.files

C11_Witness ==
    /\ FullDesktopRun
    /\ mx.os = Lit.windows
    /\ Cardinality(mx.built) = Len(Modules) * 2

\* The marker library of a call: the sokol_app library of the first backend
\* and the requested profile (for the web target, of the wasm build).
Marker ==
    IF mx.call.web THEN wasm_lib(Lit.app, profile_suffix(mx.call.debug))
    ELSE IF Backends(mx.os) = <<>> THEN <<Lit.app, NoStr>>
    ELSE check_path(mx.os, mx.arch, mx.call.debug)

\* The compilers and archivers run for the tasks of the call (the toolchain
\* probe that precedes the matrix not counted).
ToolsRun == {t \in mx.invoked : t[2] > 0}

\* C12: for either target, a call with force_clean false whose marker library
\* exists when it starts skips the whole matrix: no compiler or archiver is
\* run and the files are those it found.
C12_MarkerSkipsWholeMatrix ==
    (mx.runs + (IF mx.phase = "running" THEN 1 ELSE 0) > 0
        /\ ~mx.call.clean /\ Marker \in mx.pre)
    => (ToolsRun = {} /\ (MatrixReturned => mx.files = mx.pre))

\* A call has been made (it is running or has returned).
MatrixCalled == mx.runs > 0 \/ mx.phase = "running"

\* The call returned from its head with an error: toolchain probe, missing
\* sokol directory or unsupported OS.
HeadFailed == mx.phase = "idle" /\ ~mx.res.ok /\ mx.tasks = <<>>

\* The call follows a call that had force_clean set.
AfterCleanRun == MatrixCalled /\ mx.prev.called /\ mx.prev.clean /\ ~mx.call.clean

\* C13 as stated: a run with force_clean = false that follows a run with
\* force_clean = true skips no task.
C13_RunAfterCleanNeverSkips ==
    AfterCleanRun => ~mx.skipped

\* C13, amended: a run with force_clean = true is never skipped and, when it
\* returns Ok, has completed every task of the matrix; the run with
\* force_clean = false that follows it is skipped exactly when it is a
\* desktop run that finds the marker library on disk, which is the case
\* whenever the clean run returned Ok.
C13_CleanRunsAllNextSkipsOnMarker ==
    /\ (MatrixCalled /\ mx.call.clean) => ~mx.skipped
    /\ (MatrixReturned /\ mx.call.clean /\ mx.res.ok) =>
          /\ mx.tasks # <<>>
          /\ \A i \in DOMAIN mx.tasks :
                {<<mx.tasks[i].cc, i>>, <<mx.tasks[i].ar, i>>} \subseteq mx.invoked
    /\ (AfterCleanRun /\ ~HeadFailed) =>
          (mx.skipped <=> (~mx.call.web /\ Marker \in mx.pre))
    /\ (AfterCleanRun /\ ~HeadFailed /\ mx.prev.ok /\ ~mx.call.web) => mx.skipped

C13_Witness ==
    /\ MatrixReturned /\ AfterCleanRun
    /\ mx.prev.ok /\ mx.skipped /\ Marker \in mx.pre

\* The call has force_clean set and has purged the folders, and no task has
\* begun.
PurgedNoTaskBegun ==
    /\ mx.phase = "running"
    /\ mx.call.clean
    /\ \A i \in DOMAIN mx.tasks : mx.status[i] = "todo"

\* C14: with force_clean = true, before any task is compiled every module's
\* output directory holds no file other than .odin sources, whatever the
\* other files were named, and every .odin file found is still there.
C14_PurgeLeavesOnlySources ==
    PurgedNoTaskBegun =>
        /\ \A f \in mx.files :
              (Len(f) = 2 /\ f[1] \in CleanedFolders(mx.call)) => extension(f) = Lit.odin
        /\ \A f \in mx.pre : extension(f) = Lit.odin => f \in mx.files

\* The call reached the parallel iterator and has returned.
MatrixRan == MatrixReturned /\ mx.tasks # <<>>

\* C15: under every interleaving of the tasks, a matrix call in which a
\* task failed returns an error, one of those the tasks raised; it returns Ok
\* only if every task completed, its library written.
C15_TaskFailureFailsTheCall ==
    MatrixRan =>
        /\ (\E i \in DOMAIN mx.tasks : mx.status[i] = "failed") =>
              (~mx.res.ok /\ mx.res \in mx.errs)
        /\ mx.res.ok =>
              \A i \in DOMAIN mx.tasks :
                  mx.status[i] = "done" /\ mx.tasks[i].lib \in mx.built

C15_Witness ==
    /\ MatrixRan
    /\ ~mx.res.ok
    /\ \E i, j, k \in DOMAIN mx.tasks :
          /\ i < j /\ mx.status[i] = "done" /\ mx.status[j] = "failed"
          /\ mx.status[k] = "todo"

\* Every library of the call's matrix.
MatrixLibs ==
    IF ~mx.call.web /\ Backends(mx.os) = <<>> THEN {}
    ELSE {Tasks(mx.os, mx.arch, mx.call)[i].lib :
            i \in DOMAIN Tasks(mx.os, mx.arch, mx.call)}

\* A re-run with force_clean = false of a build whose last run failed, in
\* which every tool succeeded.
RerunAfterFailure ==
    /\ MatrixReturned
    /\ ~mx.call.clean
    /\ mx.prev.called /\ ~mx.prev.ok
    /\ mx.res.ok

\* C16: a partial build is resumable by re-running: a re-run with
\* force_clean = false after a failed run, the tools now succeeding, leaves
\* every library of the matrix on disk or at least changes the disk (a re-run
\* that changes nothing decides the same way again, so what it leaves missing
\* is never built).
C16_RerunCompletesPartialBuild ==
    RerunAfterFailure => (MatrixLibs \subseteq mx.files \/ mx.files # mx.pre)

(***************************************************************************)
(* build.rs: run_with_prefix.  Four processes: the supervisor (the calling *)
(* thread), the child, and the two reader threads.  The child's output is  *)
(* a script of lines, each for stdout or stderr; a line is named by its    *)
(* position in the script.  A pipe holds at most PipeCap lines; a write to *)
(* a full pipe blocks.                                                     *)
(***************************************************************************)

MaxLines == 3
PipeCap == 1

RECURSIVE SeqsUpTo(_, _)
SeqsUpTo(S, n) ==
    IF n = 0 THEN {<<>>}
    ELSE SeqsUpTo(S, n - 1)
         \cup {Append(s, x) : s \in {t \in SeqsUpTo(S, n - 1) : Len(t) = n - 1}, x \in S}

\* The child's output: each line has its stream and is valid UTF-8 or not
\* (BufReader::lines yields Err for a line that is not).
Scripts == SeqsUpTo([stream : {"stdout", "stderr"}, utf8 : BOOLEAN], MaxLines)

\* The stderr reader spawned only once the stdout reader has finished: the
\* streams read one after the other.
stderr_thread_after_stdout(p) == p.pc = "out_started" /\ p.out_reader = "done"

\* Whether the supervisor may spawn the stderr reader: it is the statement
\* after the spawn of the stdout reader.
stderr_thread_ready(p) == p.pc = "out_started"

\* ui.message for a stdout line, ui.error for a stderr line.
sink_fn(stream) == IF stream = "stdout" THEN "message" ELSE "error"

\* One turn of `for line in reader.lines()`: the line is taken from the pipe
\* and forwarded if it decoded.
read_line(p, stream) ==
    LET pipe == IF stream = "stdout" THEN p.out_pipe ELSE p.err_pipe
        i == Head(pipe)
        sink == IF p.script[i].utf8 THEN Append(p.sink, <<sink_fn(stream), i>>)
                ELSE p.sink
    IN  IF stream = "stdout"
        THEN [p EXCEPT !.out_pipe = Tail(@), !.sink = sink]
        ELSE [p EXCEPT !.err_pipe = Tail(@), !.sink = sink]

ProcInit ==
    /\ \E cmd \in {"sokol-shdc", "odin"}, verbose \in BOOLEAN, script \in Scripts, code \in {0, 1} :
          proc = [pc |-> "start", cmd |-> cmd, verbose |-> verbose,
                  script |-> script, code |-> code,
                  child |-> "none", written |-> 0,
                  out_pipe |-> <<>>, err_pipe |-> <<>>,
                  out_reader |-> "none", err_reader |-> "none",
                  sink |-> <<>>, spawned |-> FALSE, waited |-> FALSE,
                  res |-> Ok("unit")]
    /\ clock = 0
    /\ src_mtime = Absent /\ out_mtime = Absent /\ last_touch = "none" /\ gate = NoCall
    /\ tree = <<>> /\ atlas = NoAtlas /\ meta = NoMeta /\ run = NoCall
    /\ tile_in = NoImage /\ tile_out = NoImage
    /\ mx = NoCall /\ sh = NoCall /\ bd = NoCall /\ gr = NoCall /\ ini = NoCall /\ pj = NoCall

\* The verbose banner, then Command::new(cmd)...spawn().map_err(..)?
Spawn(ok) ==
    /\ proc.pc = "start"
    /\ proc' = IF ok
               THEN [proc EXCEPT !.pc = "spawned", !.child = "running", !.spawned = TRUE,
                                 !.sink = IF proc.verbose THEN Append(@, <<"message", 0>>) ELSE @]
               ELSE [proc EXCEPT !.pc = "returned",
                                 !.sink = IF proc.verbose THEN Append(@, <<"message", 0>>) ELSE @,
                                 !.res = Err("ProcessError", <<"Failed to start", proc.cmd>>)]
    /\ UNCHANGED <<clock, gateVars, packVars, tileVars, mx, sh, bd, toolVars>>

\* let stdout_thread = std::thread::spawn(..)
SpawnStdoutThread ==
    /\ proc.pc = "spawned"
    /\ proc' = [proc EXCEPT !.pc = "out_started", !.out_reader = "running"]
    /\ UNCHANGED <<clock, gateVars, packVars, tileVars, mx, sh, bd, toolVars>>

\* let stderr_thread = std::thread::spawn(..); the supervisor then calls
\* child.wait().
SpawnStderrThread ==
    /\ stderr_thread_ready(proc)
    /\ proc.err_reader = "none"
    /\ proc' = [proc EXCEPT !.pc = "waiting", !.err_reader = "running"]
    /\ UNCHANGED <<clock, gateVars, packVars, tileVars, mx, sh, bd, toolVars>>

\* child.wait().map_err(..)?: returns once the child has exited.
Wait(ok) ==
    /\ proc.pc = "waiting"
    /\ proc.child = "exited"
    /\ proc' = IF ok
               THEN [proc EXCEPT !.pc = "join_out", !.waited = TRUE]
               ELSE [proc EXCEPT !.pc = "returned",
                                 !.res = Err("ProcessError", <<"Failed to wait for", proc.cmd>>)]
    /\ UNCHANGED <<clock, gateVars, packVars, tileVars, mx, sh, bd, toolVars>>

\* stdout_thread.join().unwrap()
JoinStdout ==
    /\ proc.pc = "join_out"
    /\ proc.out_reader = "done"
    /\ proc' = [proc EXCEPT !.pc = "join_err"]
    /\ UNCHANGED <<clock, gateVars, packVars, tileVars, mx, sh, bd, toolVars>>

\* stderr_thread.join().unwrap()
JoinStderr ==
    /\ proc.pc = "join_err"
    /\ proc.err_reader = "done"
    /\ proc' = [proc EXCEPT !.pc = "status"]
    /\ UNCHANGED <<clock, gateVars, packVars, tileVars, mx, sh, bd, toolVars>>

\* The status test with its outcome dropped.
status_result_ignored(cmd, code) == Ok("unit")

\* if !status.success() { return Err(BuildError(format!("{} failed", cmd))) } Ok(())
status_result(cmd, code) ==
    IF code = 0 THEN Ok("unit") ELSE Err("BuildError", <<"failed", cmd>>)

InspectStatus ==
    /\ proc.pc = "status"
    /\ proc' = [proc EXCEPT !.pc = "returned",
                            !.res = status_result(proc.cmd, proc.code)]
    /\ UNCHANGED <<clock, gateVars, packVars, tileVars, mx, sh, bd, toolVars>>

\* The child writes its next line; the write blocks while the pipe is full.
ChildWrite ==
    /\ proc.child = "running"
    /\ proc.written < Len(proc.script)
    /\ LET i == proc.written + 1
       IN  IF proc.script[i].stream = "stdout"
           THEN /\ Len(proc.out_pipe) < PipeCap
                /\ proc' = [proc EXCEPT !.out_pipe = Append(@, i), !.written = i]
           ELSE /\ Len(proc.err_pipe) < PipeCap
                /\ proc' = [proc EXCEPT !.err_pipe = Append(@, i), !.written = i]
    /\ UNCHANGED <<clock, gateVars, packVars, tileVars, mx, sh, bd, toolVars>>

\* The child exits after its last line, which closes its ends of the pipes.
ChildExit ==
    /\ proc.child = "running"
    /\ proc.written = Len(proc.script)
    /\ proc' = [proc EXCEPT !.child = "exited"]
    /\ UNCHANGED <<clock, gateVars, packVars, tileVars, mx, sh, bd, toolVars>>

\* The stdout reader forwards a line.
StdoutRead ==
    /\ proc.out_reader = "running"
    /\ proc.out_pipe # <<>>
    /\ proc' = read_line(proc, "stdout")
    /\ UNCHANGED <<clock, gateVars, packVars, tileVars, mx, sh, bd, toolVars>>

\* The stdout reader meets end of file.
StdoutEof ==
    /\ proc.out_reader = "running"
    /\ proc.out_pipe = <<>>
    /\ proc.child = "exited"
    /\ proc' = [proc EXCEPT !.out_reader = "done"]
    /\ UNCHANGED <<clock, gateVars, packVars, tileVars, mx, sh, bd, toolVars>>

\* The stderr reader forwards a line.
StderrRead ==
    /\ proc.err_reader = "running"
    /\ proc.err_pipe # <<>>
    /\ proc' = read_line(proc, "stderr")
    /\ UNCHANGED <<clock, gateVars, packVars, tileVars, mx, sh, bd, toolVars>>

\* The stderr reader meets end of file.
StderrEof ==
    /\ proc.err_reader = "running"
    /\ proc.err_pipe = <<>>
    /\ proc.child = "exited"
    /\ proc' = [proc EXCEPT !.err_reader = "done"]
    /\ UNCHANGED <<clock, gateVars, packVars, tileVars, mx, sh, bd, toolVars>>

Supervisor ==
    \/ \E ok \in BOOLEAN : Spawn(ok)
    \/ SpawnStdoutThread
    \/ SpawnStderrThread
    \/ \E ok \in BOOLEAN : Wait(ok)
    \/ JoinStdout
    \/ JoinStderr
    \/ InspectStatus

ProcNext ==
    \/ Supervisor
    \/ ChildWrite
    \/ ChildExit
    \/ StdoutRead
    \/ StdoutEof
    \/ StderrRead
    \/ StderrEof

ProcSpec == ProcInit /\ [][ProcNext]_vars

\* Every process that can take a step eventually takes one: the operating
\* system schedules the child and each thread.
ProcFairSpec ==
    /\ ProcSpec
    /\ WF_vars(Supervisor)
    /\ WF_vars(ChildWrite) /\ WF_vars(ChildExit)
    /\ WF_vars(StdoutRead) /\ WF_vars(StdoutEof)
    /\ WF_vars(StderrRead) /\ WF_vars(StderrEof)

\* C17: for a child that writes any finite interleaving of lines to stdout
\* and stderr through bounded pipes and then exits, run_with_prefix
\* eventually returns: the child never stays blocked on a full pipe.
C17_RunWithPrefixReturns == <>(proc.pc = "returned")

C17_Witness ==
    /\ proc.pc = "returned"
    /\ proc.res.ok
    /\ Len(proc.script) = MaxLines
    /\ proc.script[1].stream = "stderr"
    /\ \A i \in 2 .. MaxLines : proc.script[i].stream = "stderr"
    /\ Len(proc.sink) >= MaxLines

\* The lines of a stream that the sink received, in the order received.
Forwarded(stream) ==
    SelectSeq(proc.sink, LAMBDA e : e[1] = sink_fn(stream) /\ e[2] > 0)

\* The lines the child wrote to a stream, in the order written.
WrittenTo(stream) ==
    {i \in 1 .. proc.written : proc.script[i].stream = stream}

\* The call returned Ok or a build error.
ReturnedOkOrBuildError ==
    /\ proc.pc = "returned"
    /\ (proc.res.ok \/ proc.res.err = "BuildError")

\* C18: run_with_prefix waits for the child's exit only after both readers
\* have been started and inspects the exit status only after both readers
\* have been joined; when it returns Ok or a build error, every line the child
\* wrote to stdout and stderr has been forwarded to the sink, and the lines of
\* each stream were forwarded in the order written.
C18_AllOutputForwardedInOrder ==
    /\ proc.pc = "waiting" => (proc.out_reader # "none" /\ proc.err_reader # "none")
    /\ proc.pc = "status" => (proc.out_reader = "done" /\ proc.err_reader = "done")
    /\ \A s \in {"stdout", "stderr"} :
          \A a, b \in DOMAIN Forwarded(s) :
              a < b => Forwarded(s)[a][2] < Forwarded(s)[b][2]
    /\ ReturnedOkOrBuildError =>
          \A s \in {"stdout", "stderr"} :
              {Forwarded(s)[a][2] : a \in DOMAIN Forwarded(s)} = WrittenTo(s)

\* The part of C18 that does not depend on what the lines hold.
C18_OrderAndJoins ==
    /\ proc.pc = "waiting" => (proc.out_reader # "none" /\ proc.err_reader # "none")
    /\ proc.pc = "status" => (proc.out_reader = "done" /\ proc.err_reader = "done")
    /\ \A s \in {"stdout", "stderr"} :
          \A a, b \in DOMAIN Forwarded(s) :
              a < b => Forwarded(s)[a][2] < Forwarded(s)[b][2]
    /\ ReturnedOkOrBuildError =>
          \A s \in {"stdout", "stderr"} :
              {Forwarded(s)[a][2] : a \in DOMAIN Forwarded(s)}
                  = {i \in WrittenTo(s) : proc.script[i].utf8}

\* C19 as stated: run_with_prefix returns Ok iff the child was spawned and
\* exited with status zero; a non-zero exit yields a BuildError carrying the
\* command name; a failure to spawn yields ProcessError, no reader started.
C19_OkIffSpawnedAndExitZero ==
    proc.pc = "returned" =>
        /\ proc.res.ok <=> (proc.spawned /\ proc.child = "exited" /\ proc.code = 0)
        /\ (proc.spawned /\ proc.child = "exited" /\ proc.code # 0) =>
              proc.res = Err("BuildError", <<"failed", proc.cmd>>)
        /\ ~proc.spawned =>
              /\ ~proc.res.ok /\ proc.res.err = "ProcessError"
              /\ proc.out_reader = "none" /\ proc.err_reader = "none"

\* C19, amended: run_with_prefix returns Ok iff the child was spawned, the
\* wait for it succeeded and its status is zero; a non-zero status yields a
\* BuildError carrying the command name; a failure to spawn yields a
\* ProcessError with no reader started and no line forwarded; a failure of the
\* wait yields a ProcessError too, both readers started.
C19_OkIffSpawnedWaitedAndExitZero ==
    proc.pc = "returned" =>
        /\ proc.res.ok <=> (proc.spawned /\ proc.waited /\ proc.code = 0)
        /\ (proc.spawned /\ proc.waited /\ proc.code # 0) =>
              proc.res = Err("BuildError", <<"failed", proc.cmd>>)
        /\ ~proc.spawned =>
              /\ proc.res = Err("ProcessError", <<"Failed to start", proc.cmd>>)
              /\ proc.out_reader = "none" /\ proc.err_reader = "none"
              /\ Forwarded("stdout") = <<>> /\ Forwarded("stderr") = <<>>
        /\ (proc.spawned /\ ~proc.waited) =>
              /\ proc.res = Err("ProcessError", <<"Failed to wait for", proc.cmd>>)
              /\ proc.out_reader # "none" /\ proc.err_reader # "none"

C19_Witness ==
    /\ proc.pc = "returned"
    /\ proc.spawned /\ ~proc.waited
    /\ proc.child = "exited" /\ proc.code = 0
    /\ ~proc.res.ok

(***************************************************************************)
(* build.rs: compile_shaders.  sh holds the mtime of the core shader and   *)
(* of its output, the entries of the game shader tree, and the record of   *)
(* the last call.                                                          *)
(***************************************************************************)

MaxShaderFiles == 2
MaxShaderClock == 2


\* The names under which the four include fragments are copied into the
\* cache: core vertex, core fragment, utils, header.
IncludeNames ==
    << <<"s", "h", "a", "d", "e", "r", "_", "v", "s", "_", "c", "o", "r", "e", ".", "g", "l", "s", "l">>,
       <<"s", "h", "a", "d", "e", "r", "_", "f", "s", "_", "c", "o", "r", "e", ".", "g", "l", "s", "l">>,
       <<"s", "h", "a", "d", "e", "r", "_", "u", "t", "i", "l", "s", ".", "g", "l", "s", "l">>,
       <<"s", "h", "a", "d", "e", "r", "_", "h", "e", "a", "d", "e", "r", ".", "g", "l", "s", "l">> >>

\* What the game shader tree may hold.
ShaderCatalog ==
    << [path |-> << <<"a", ".", "g", "l", "s", "l">> >>, dir |-> FALSE],
       [path |-> << <<"a", ".", "v", "e", "r", "t">> >>, dir |-> FALSE],
       [path |-> << <<"f", "x">>, <<"b", ".", "f", "r", "a", "g">> >>, dir |-> FALSE],
       [path |-> << <<"c", ".", "t", "x", "t">> >>, dir |-> FALSE],
       [path |-> << <<"r">> >>, dir |-> FALSE],
       [path |-> << <<"d", ".", "g", "l", "s", "l">> >>, dir |-> TRUE],
       [path |-> << <<"a", ".", "o", "d", "i", "n">> >>, dir |-> FALSE],
       [path |-> << <<"f", "x">>, <<"b", ".", "o", "d", "i", "n">> >>, dir |-> FALSE],
       [path |-> << IncludeNames[3] >>, dir |-> FALSE],
       [path |-> << <<"s", "h", "a", "d", "e", "r", "_", "u", "t", "i", "l", "s",
                      ".", "o", "d", "i", "n">> >>, dir |-> FALSE] >>

\* Path::with_extension
with_extension(path, ext) ==
    [path EXCEPT ![Len(path)] = file_stem(path) \o <<".">> \o ext]

\* The catalog entry with a given path, 0 when there is none.
EntryAt(path) ==
    IF \E j \in DOMAIN ShaderCatalog : ShaderCatalog[j].path = path
    THEN CHOOSE j \in DOMAIN ShaderCatalog : ShaderCatalog[j].path = path
    ELSE 0

\* The extension filter with only "glsl" recognised.
is_shader_ext_glsl_only(path) == extension(path) = Lit.glsl

\* match path.extension() { Some("glsl") | Some("vert") | Some("frag") => {} _ => continue }
is_shader_ext(path) == extension(path) \in {Lit.glsl, Lit.vert, Lit.frag}

\* The orders in which WalkDir may enumerate the entries present: the entries
\* with a shader extension in any order.  The walk passes over every other
\* entry without reading or writing anything, so where those stand in the
\* enumeration is immaterial and they are listed last, in catalogue order.
ShaderWalkOrders(ent) ==
    LET S == {i \in DOMAIN ShaderCatalog : ent[i] # Absent /\ is_shader_ext(ShaderCatalog[i].path)}
        n == Cardinality(S)
        Other(i) == ent[i] # Absent /\ i \notin S
    IN  {o \o SelectSeq([i \in DOMAIN ShaderCatalog |-> i], Other) :
            o \in {p \in [1 .. n -> S] : \A i, j \in 1 .. n : i # j => p[i] # p[j]}}

\* fs::copy(from, cache_dir.join(name)): the cache maps a file name to the
\* file it was copied from (-n for the n-th include fragment, 0 for the core
\* shader, i for the i-th entry of the tree).
cache_copy(cache, name, from) ==
    {c \in cache : c[1] # name} \cup {<<name, from>>}

\* src_path.file_name(): the name under which the source of f is copied into the cache (f = 0 is
\* the core shader).
CachedName(f) ==
    IF f = 0 THEN <<"s", "h", "a", "d", "e", "r", ".", "g", "l", "s", "l">>
    ELSE file_name(ShaderCatalog[f].path)

\* compile_shader_cached: the source is copied into the cache, then the
\* cross-compiler runs (the k-th run of the call), which writes the output
\* unless it fails; a failing run writes one line to stderr, which
\* run_with_prefix forwards if it decodes.  s is the state of the call: the
\* tree, the core output, the cache, the checks and invocations made and the
\* result so far.
compile_shader_cached(s, f, out, now, fail_at, utf8) ==
    IF Len(s.inv) + 1 = fail_at
    THEN [s EXCEPT !.inv = Append(@, f),
                   !.cache = cache_copy(@, CachedName(f), f),
                   !.caches = Append(@, cache_copy(s.cache, CachedName(f), f)),
                   !.stderr = <<[utf8 |-> utf8]>>,
                   !.sink = IF utf8 THEN <<<<"error", 1>>>> ELSE <<>>,
                   !.res = Err("BuildError", <<"failed", "sokol-shdc">>)]
    ELSE [s EXCEPT !.inv = Append(@, f),
                   !.cache = cache_copy(@, CachedName(f), f),
                   !.caches = Append(@, cache_copy(s.cache, CachedName(f), f)),
                   !.core_out = IF out = 0 THEN now ELSE @,
                   !.ent = IF out = 0 THEN @ ELSE [@ EXCEPT ![out] = now]]

\* The gate and what follows it, for the core shader (f = 0) or an entry.
gate_and_compile(s, f, src, out, out_time, now, fail_at, utf8, skip) ==
    IF ~skip.ok
    THEN [s EXCEPT !.res = skip,
                   !.checks = Append(@, [f |-> f, src |-> src, out |-> out_time])]
    ELSE IF skip.val
    THEN [s EXCEPT !.checks = Append(@, [f |-> f, src |-> src, out |-> out_time])]
    ELSE compile_shader_cached(
             [s EXCEPT !.checks = Append(@, [f |-> f, src |-> src, out |-> out_time])],
             f, out, now, fail_at, utf8)

\* The body of the walk for one entry.
walk_entry(s, i, now, fail_at, utf8) ==
    IF ShaderCatalog[i].dir THEN s
    ELSE IF ~is_shader_ext(ShaderCatalog[i].path) THEN s
    ELSE gate_and_compile(s, i, s.ent[i],
                          EntryAt(with_extension(ShaderCatalog[i].path, Lit.odin)),
                          s.ent[EntryAt(with_extension(ShaderCatalog[i].path, Lit.odin))],
                          now, fail_at, utf8,
                          should_skip(s.ent[i],
                                      s.ent[EntryAt(with_extension(ShaderCatalog[i].path, Lit.odin))]))

\* for entry in walker.filter_map(|e| e.ok()): an error ends the walk.
RECURSIVE walk(_, _, _, _, _)
walk(s, order, now, fail_at, utf8) ==
    IF order = <<>> \/ ~s.res.ok THEN s
    ELSE walk(walk_entry(s, Head(order), now, fail_at, utf8), Tail(order), now, fail_at, utf8)

\* fn compile_shaders(ui): the cache directory is removed and created anew,
\* the four include fragments are copied into it, then the core shader and
\* the walk.
compile_shaders(cur, order, now, fail_at, utf8) ==
    IF fail_at = -1
    THEN [cur EXCEPT !.called = TRUE, !.pre_ent = cur.ent, !.pre_core_out = cur.core_out,
                     !.checks = <<>>, !.inv = <<>>, !.caches = <<>>,
                     !.stderr = <<>>, !.sink = <<>>, !.cache = {},
                     !.res = Err("IoError", <<"copy", "include">>)]
    ELSE walk(gate_and_compile(
                  [cur EXCEPT !.called = TRUE, !.pre_ent = cur.ent,
                              !.pre_core_out = cur.core_out,
                              !.checks = <<>>, !.inv = <<>>, !.caches = <<>>,
                              !.stderr = <<>>, !.sink = <<>>,
                              !.cache = {<<IncludeNames[n], -n>> : n \in DOMAIN IncludeNames},
                              !.res = Ok("unit")],
                  0, cur.core_src, 0, cur.core_out, now, fail_at, utf8,
                  should_skip(cur.core_src, cur.core_out)),
              order, now, fail_at, utf8)

ShaderInit ==
    /\ clock = 0
    /\ \E e \in [DOMAIN ShaderCatalog -> {Absent, 0}] :
          /\ Cardinality({i \in DOMAIN ShaderCatalog : e[i] # Absent}) <= MaxShaderFiles
          /\ sh = [core_src |-> 0, core_out |-> Absent, ent |-> e,
                   called |-> FALSE, pre_ent |-> e, pre_core_out |-> Absent,
                   checks |-> <<>>, inv |-> <<>>, caches |-> <<>>,
                   cache |-> {}, stderr |-> <<>>, sink |-> <<>>,
                   res |-> Ok("unit")]
    /\ src_mtime = Absent /\ out_mtime = Absent /\ last_touch = "none" /\ gate = NoCall
    /\ tree = <<>> /\ atlas = NoAtlas /\ meta = NoMeta /\ run = NoCall
    /\ tile_in = NoImage /\ tile_out = NoImage
    /\ mx = NoCall /\ proc = NoCall /\ bd = NoCall /\ gr = NoCall /\ ini = NoCall /\ pj = NoCall

\* A source entry of the tree is created or rewritten, later than every
\* earlier write.
WriteShaderFile(i) ==
    /\ clock < MaxShaderClock
    /\ extension(ShaderCatalog[i].path) # Lit.odin
    /\ Cardinality({j \in DOMAIN ShaderCatalog : sh.ent[j] # Absent
                                          /\ extension(ShaderCatalog[j].path) # Lit.odin}
                   \cup {i}) <= MaxShaderFiles
    /\ clock' = clock + 1
    /\ sh' = [sh EXCEPT !.ent[i] = clock + 1]
    /\ UNCHANGED <<gateVars, packVars, tileVars, mx, proc, bd, toolVars>>

\* The core shader is edited.
WriteCoreShader ==
    /\ clock < MaxShaderClock
    /\ clock' = clock + 1
    /\ sh' = [sh EXCEPT !.core_src = clock + 1]
    /\ UNCHANGED <<gateVars, packVars, tileVars, mx, proc, bd, toolVars>>

\* An entry of the tree is deleted.
RemoveShaderFile(i) ==
    /\ clock < MaxShaderClock
    /\ sh.ent[i] # Absent
    /\ clock' = clock + 1
    /\ sh' = [sh EXCEPT !.ent[i] = Absent]
    /\ UNCHANGED <<gateVars, packVars, tileVars, mx, proc, bd, toolVars>>

\* prepare_resources calls compile_shaders.
CompileShaders(order, fail_at, utf8) ==
    /\ fail_at # 1 => utf8
    /\ sh' = compile_shaders(sh, order, clock, fail_at, utf8)
    /\ UNCHANGED clock
    /\ UNCHANGED <<gateVars, packVars, tileVars, mx, proc, bd, toolVars>>

ShaderNext ==
    \/ \E i \in DOMAIN ShaderCatalog : WriteShaderFile(i)
    \/ WriteCoreShader
    \/ \E i \in DOMAIN ShaderCatalog : RemoveShaderFile(i)
    \/ \E order \in ShaderWalkOrders(sh.ent), fail_at \in -1 .. 1, utf8 \in BOOLEAN :
          CompileShaders(order, fail_at, utf8)

ShaderSpec == ShaderInit /\ [][ShaderNext]_vars

\* The number of times the cross-compiler was run for f in the last call
\* (f = 0 is the core shader).
Invocations(f) == Cardinality({k \in DOMAIN sh.inv : sh.inv[k] = f})

\* The gate evaluations made for f in the last call.
ChecksOf(f) == {k \in DOMAIN sh.checks : sh.checks[k].f = f}

\* Stale: the output does not exist or the source is newer.
StaleCheck(c) == c.out = Absent \/ c.src > c.out

EndsWith(name, suffix) ==
    /\ Len(name) >= Len(suffix)
    /\ SubSeq(name, Len(name) - Len(suffix) + 1, Len(name)) = suffix

\* A file of the tree, as the call found it, named *.glsl, *.vert or *.frag.
ShaderFileSeen(i) ==
    /\ sh.pre_ent[i] # Absent
    /\ ~ShaderCatalog[i].dir
    /\ \E suffix \in {<<".">> \o Lit.glsl, <<".">> \o Lit.vert, <<".">> \o Lit.frag} :
          EndsWith(file_name(ShaderCatalog[i].path), suffix)

\* The sibling '<stem>.odin' of a shader file.
SiblingOdin(i) ==
    CHOOSE j \in DOMAIN ShaderCatalog :
        /\ Len(ShaderCatalog[j].path) = Len(ShaderCatalog[i].path)
        /\ \A n \in 1 .. Len(ShaderCatalog[i].path) - 1 :
              ShaderCatalog[j].path[n] = ShaderCatalog[i].path[n]
        /\ file_name(ShaderCatalog[j].path)
              = file_stem(ShaderCatalog[i].path) \o <<".">> \o Lit.odin

\* An error-free call of compile_shaders.
ShadersCompiled == sh.called /\ sh.res.ok

\* C20: in a compile_shaders run in which no error occurs, the cross-compiler
\* is run for the core shader iff it is stale against its compiled output,
\* and for each file of the game shader tree named *.glsl, *.vert or *.frag
\* iff that file is stale against its sibling '<stem>.odin' when the walk
\* reaches it (which, when no other shader file has the same sibling, is its
\* staleness when the run began); it is run at most once per shader file and
\* never for another entry.
C20_ShdcRunsIffStale ==
    ShadersCompiled =>
        /\ Invocations(0) <= 1
        /\ Cardinality(ChecksOf(0)) = 1
        /\ \A k \in ChecksOf(0) :
              /\ sh.checks[k].out = sh.pre_core_out
              /\ Invocations(0) = 1 <=> StaleCheck(sh.checks[k])
        /\ \A i \in DOMAIN ShaderCatalog :
              IF ShaderFileSeen(i)
              THEN /\ Invocations(i) <= 1
                   /\ Cardinality(ChecksOf(i)) = 1
                   /\ \A k \in ChecksOf(i) :
                         /\ sh.checks[k].src = sh.pre_ent[i]
                         /\ Invocations(i) = 1 <=> StaleCheck(sh.checks[k])
                         /\ (\A j \in DOMAIN ShaderCatalog \ {i} :
                                ShaderFileSeen(j) => SiblingOdin(j) # SiblingOdin(i))
                               => sh.checks[k].out = sh.pre_ent[SiblingOdin(i)]
              ELSE Invocations(i) = 0 /\ ChecksOf(i) = {}

C20_Witness ==
    /\ ShadersCompiled
    /\ ShaderFileSeen(1) /\ ShaderFileSeen(2)
    /\ sh.pre_ent[SiblingOdin(1)] = Absent
    /\ Invocations(1) + Invocations(2) = 1
    /\ Invocations(0) = 0
    /\ sh.pre_core_out # Absent

\* A call of compile_shaders in which the cross-compiler exited non-zero.
ShdcFailed == sh.called /\ ~sh.res.ok /\ sh.res.err = "BuildError"

\* C21: if the cross-compiler exits non-zero for a shader, compile_shaders
\* returns a build error, every line the tool wrote to stderr has been
\* surfaced, and the failing run is the last thing the call did: the last
\* shader gated is the one whose run failed and no run follows it.
C21_ShdcFailureSurfacedAndLast ==
    ShdcFailed =>
        /\ sh.inv # <<>>
        /\ sh.checks[Len(sh.checks)].f = sh.inv[Len(sh.inv)]
        /\ Len(sh.sink) = Len(sh.stderr)

\* The part of C21 about stopping at the failure: the failing run is the last
\* of the call, it leaves every output as it was, and the stderr lines that
\* decode are surfaced.
C21_NothingAfterTheFailure ==
    [][(clock' = clock /\ sh'.called /\ ~sh'.res.ok /\ sh'.res.err = "BuildError") =>
          /\ sh'.inv # <<>>
          /\ sh'.checks[Len(sh'.checks)].f = sh'.inv[Len(sh'.inv)]
          /\ sh'.ent = sh.ent /\ sh'.core_out = sh.core_out
          /\ Len(sh'.sink) = Cardinality({k \in DOMAIN sh'.stderr : sh'.stderr[k].utf8})]_vars

\* C24: the cache is emptied and repopulated at the start of every run of
\* compile_shaders, and at each run of the cross-compiler it holds that
\* shader's own source and the four include fragments as copied from the
\* include directory, and nothing from before the call, whatever the files
\* of the game shader tree are named.
C24_CacheHoldsSourceAndIncludes ==
    sh.called =>
        \A k \in DOMAIN sh.caches :
            /\ <<CachedName(sh.inv[k]), sh.inv[k]>> \in sh.caches[k]
            /\ \A n \in DOMAIN IncludeNames : <<IncludeNames[n], -n>> \in sh.caches[k]
            /\ \A c \in sh.caches[k] :
                  c[2] < 0 \/ \E j \in 1 .. k : sh.inv[j] = c[2]

\* What of C24 holds for every tree: the shader's own source is in the cache,
\* nothing in it predates the call, and an include fragment is there as
\* copied unless a shader compiled so far in the call bears its name.
C24_CacheUnlessNameClash ==
    sh.called =>
        \A k \in DOMAIN sh.caches :
            /\ <<CachedName(sh.inv[k]), sh.inv[k]>> \in sh.caches[k]
            /\ \A n \in DOMAIN IncludeNames :
                  \/ <<IncludeNames[n], -n>> \in sh.caches[k]
                  \/ \E j \in 1 .. k : CachedName(sh.inv[j]) = IncludeNames[n]
            /\ \A c \in sh.caches[k] :
                  c[2] < 0 \/ \E j \in 1 .. k : sh.inv[j] = c[2]

\* ---------------------------------------------------------------------
\* build_desktop and build_web (build.rs): prepare_resources, then
\* compile_project, then the copy of the assets or the Emscripten link.
\* ---------------------------------------------------------------------

MaxScripts == 1

\* The calls build_desktop / build_web make, in program order:
\* prepare_resources (build.rs 64-69), compile_project (209, 224, 250), then
\* the tail of build_desktop (272) or of build_web (288-343).
Stages(web) ==
    <<"check_dependencies", "run_utils", "update_manifest", "pack_atlas",
      "generate_assets", "compile_shaders", "compile_sokol", "create_out_dir",
      "odin_build">>
    \o (IF web THEN <<"odin_root", "copy_odin_js", "copy_assets", "get_emsdk_path",
                      "read_manifest", "emcc_link">>
        ELSE <<"copy_assets">>)

\* A stage result handled without the `?`: the error is dropped and the next
\* stage runs.
after_stage_unchecked(b, r) ==
    IF b.at = Len(Stages(b.web))
    THEN [b EXCEPT !.pc = "returned", !.res = Ok("unit"), !.py = <<>>]
    ELSE [b EXCEPT !.at = @ + 1, !.log = Append(@, Stages(b.web)[b.at + 1]), !.py = <<>>]

\* `stage(..)?`: an error is returned to the caller at once; otherwise the
\* next stage is entered, or Ok is returned after the last one.
after_stage(b, r) ==
    IF ~r.ok THEN [b EXCEPT !.pc = "returned", !.res = r]
    ELSE IF b.at = Len(Stages(b.web))
    THEN [b EXCEPT !.pc = "returned", !.res = Ok("unit"), !.py = <<>>]
    ELSE [b EXCEPT !.at = @ + 1, !.log = Append(@, Stages(b.web)[b.at + 1]), !.py = <<>>]

\* build_desktop(config, clean, ui) or build_web(config, clean, ui) is
\* called, for the target and profile of the machine state; the utils
\* directory holds `scripts` python scripts.
Build(clean, scripts) ==
    /\ mx.phase = "idle"
    /\ mx.runs < MaxRuns
    /\ IF bd.called THEN bd.pc = "returned" ELSE TRUE
    /\ bd' = [called |-> TRUE, web |-> mx.web, clean |-> clean, pc |-> "running",
              at |-> 1, log |-> <<Stages(mx.web)[1]>>, todo |-> scripts, py |-> <<>>,
              runs0 |-> mx.runs, res |-> Ok("unit")]
    /\ UNCHANGED <<clock, gateVars, packVars, tileVars, mx, proc, sh, toolVars>>

\* visit_utility_dir on a .py script: run_with_prefix("python3", ..), and
\* .or_else(|_| run_with_prefix("python", ..))? when that returned an error.
\* outcome is what the interpreter run at this step did: "spawn" (could not
\* be started), "wait", "status" (exited non-zero) or "ok".
RunInterpreter(outcome) ==
    /\ bd.called /\ bd.pc = "running"
    /\ Stages(bd.web)[bd.at] = "run_utils"
    /\ bd.todo > 0
    /\ bd' = IF outcome = "ok"
             THEN [bd EXCEPT !.todo = @ - 1,
                             !.py = IF Len(@) = 1 THEN Append(@, <<"python", outcome>>)
                                    ELSE <<<<"python3", outcome>>>>]
             ELSE IF Len(bd.py) = 1
             THEN [bd EXCEPT !.py = Append(@, <<"python", outcome>>),
                             !.pc = "returned",
                             !.res = IF outcome = "status"
                                     THEN Err("BuildError", <<"failed", "python", <<>>>>)
                                     ELSE Err("ProcessError", <<outcome, "python", <<>>>>)]
             ELSE [bd EXCEPT !.py = <<<<"python3", outcome>>>>]
    /\ UNCHANGED <<clock, gateVars, packVars, tileVars, mx, proc, sh, toolVars>>

\* The stage at hand returns: ok says whether it succeeded.  run_utils
\* returns Ok once every script has run; compile_sokol returns what the
\* matrix call made for this build returned.
StageStep(ok) ==
    /\ bd.called /\ bd.pc = "running"
    /\ Stages(bd.web)[bd.at] = "run_utils" => (ok /\ bd.todo = 0 /\ Len(bd.py) # 1)
    /\ Stages(bd.web)[bd.at] = "compile_sokol"
          => (mx.phase = "idle" /\ mx.runs > bd.runs0 /\ ok = mx.res.ok)
    /\ bd' = after_stage(bd, IF ok THEN Ok("unit")
                             ELSE IF Stages(bd.web)[bd.at] = "compile_sokol" THEN mx.res
                             ELSE Err("Error", <<Stages(bd.web)[bd.at], "", <<>>>>))
    /\ UNCHANGED <<clock, gateVars, packVars, tileVars, mx, proc, sh, toolVars>>

BuildNext ==
    \/ \E clean \in BOOLEAN, scripts \in 0 .. MaxScripts : Build(clean, scripts)
    \/ \E outcome \in {"ok", "spawn", "wait", "status"} : RunInterpreter(outcome)
    \/ \E ok \in BOOLEAN : StageStep(ok)
    \/ /\ bd.called /\ bd.pc = "running"
       /\ Stages(bd.web)[bd.at] = "compile_sokol"
       /\ mx.runs = bd.runs0
       /\ \E probe_ok \in BOOLEAN : CompileSokol(bd.clean, probe_ok)
    \/ \E i \in 1 .. 2 * MaxModules, outcome \in {"ok", "mkdir", "spawn", "status"} :
          TaskCompile(i, outcome)
    \/ \E i \in 1 .. 2 * MaxModules, outcome \in {"ok", "spawn", "status"} :
          TaskArchive(i, outcome)
    \/ MatrixReturn

BuildSpec == MatrixInit /\ [][BuildNext]_vars

\* C23: when a timestamp of the source or of an existing output cannot be
\* read, the staleness gate returns an I/O error to its stage and never the
\* answer 'fresh'.  For should_repack: a pack_atlas call made while atlas.png
\* exists and the images directory is there but cannot be stat'ed gets an
\* I/O error from the gate and returns it.
C23_UnreadableIsAnErrorNeverFresh ==
    [][\A verbose \in BOOLEAN :
         (PackAtlasStep(verbose) /\ tree.dir /\ tree.denied /\ atlas.exists)
             => /\ should_repack(tree, atlas) # Ok(FALSE)
                /\ ~run'.res.ok
                /\ run'.res.err = "IoError"]_vars

\* The build call has returned.
BuildReturned == bd.called /\ bd.pc = "returned"

\* The stages the order is stated for, the last one by target.
NamedStages ==
    <<"check_dependencies", "run_utils", "update_manifest", "pack_atlas",
      "generate_assets", "compile_shaders", "compile_sokol", "odin_build",
      IF bd.web THEN "emcc_link" ELSE "copy_assets">>

\* The place of a stage among those entered so far, 0 when not entered.
EnteredAt(stage) ==
    IF \E k \in DOMAIN bd.log : bd.log[k] = stage
    THEN CHOOSE k \in DOMAIN bd.log : bd.log[k] = stage
    ELSE 0

\* C22: build_desktop and build_web enter the stages in one fixed order
\* (dependency check, utility scripts, manifest sync, atlas packing, asset
\* generation, shader compilation, native-library matrix, Odin compile, then
\* the asset copy or the Emscripten link); when a stage returns an error no
\* later stage is entered and that error is what the build returns; a build
\* that returns Ok entered every stage; and the Odin compile is entered only
\* after the matrix call of this build returned Ok with no task in flight and
\* every task it began completed.
C22_StagesInOrderFailFast ==
    bd.called =>
        /\ \A k \in DOMAIN bd.log :
              Cardinality({j \in DOMAIN bd.log : bd.log[j] = bd.log[k]}) = 1
        /\ \A i, j \in DOMAIN NamedStages :
              (i < j /\ EnteredAt(NamedStages[j]) > 0)
                 => (EnteredAt(NamedStages[i]) > 0
                     /\ EnteredAt(NamedStages[i]) < EnteredAt(NamedStages[j]))
        /\ (BuildReturned /\ bd.res.ok) =>
              \A i \in DOMAIN NamedStages : EnteredAt(NamedStages[i]) > 0
        /\ (BuildReturned /\ ~bd.res.ok) =>
              LET last == bd.log[Len(bd.log)]
              IN  IF last = "compile_sokol" THEN bd.res = mx.res
                  ELSE IF last = "run_utils" THEN bd.res.msg[2] = "python"
                  ELSE bd.res.msg[1] = last
        /\ EnteredAt("odin_build") > 0 =>
              /\ mx.phase = "idle" /\ mx.runs > bd.runs0 /\ mx.res.ok
              /\ ~mx.skipped => (mx.tasks # <<>>
                                 /\ \A i \in DOMAIN mx.tasks : mx.status[i] = "done")

\* A web build that ran the matrix and came to its end.
C22_Witness ==
    /\ BuildReturned /\ bd.res.ok /\ bd.web
    /\ ~mx.skipped /\ mx.tasks # <<>>
    /\ bd.log[Len(bd.log)] = "emcc_link"

\* C29: for a .py utility script the alternate interpreter (python) is tried
\* only if the first (python3) could not be started; a script that ran under
\* python3 and exited non-zero is not run again; at most one alternate is
\* tried.
C29_FallbackOnlyWhenAbsent ==
    bd.called =>
        /\ Len(bd.py) <= 2
        /\ Len(bd.py) >= 1 => bd.py[1][1] = "python3"
        /\ Len(bd.py) = 2 => (bd.py[2][1] = "python" /\ bd.py[1][2] = "spawn")

\* What holds of the fallback: python is tried once, after any error of the
\* python3 run, whether it could not be started, could not be waited for or
\* exited non-zero.
C29_FallbackOnAnyError ==
    bd.called =>
        /\ Len(bd.py) <= 2
        /\ Len(bd.py) >= 1 => bd.py[1][1] = "python3"
        /\ Len(bd.py) = 2 => (bd.py[2][1] = "python" /\ bd.py[1][2] # "ok")

\* The object file and the library of task i of the call.
TaskPaths(t) == {t.obj, t.lib}

C26_NoTaskInFlightAtReturn ==
    (mx.phase = "idle" /\ mx.runs > 0) =>
        /\ \A i \in DOMAIN mx.tasks : mx.status[i] # "compiled"
        /\ \A i \in DOMAIN mx.tasks :
              mx.tasks[i].lib \in mx.files \ mx.pre => mx.status[i] = "done"
        /\ \A f \in mx.files \ mx.pre :
              \E i \in DOMAIN mx.tasks :
                  \/ f = mx.tasks[i].lib /\ mx.status[i] = "done"
                  \/ f = mx.tasks[i].obj /\ mx.status[i] = "failed"

\* The call returned an error and a task of it still ran to its end.
C26_Witness ==
    /\ mx.phase = "idle" /\ mx.runs > 0
    /\ ~mx.res.ok
    /\ \E i, j \in DOMAIN mx.tasks : mx.status[i] = "done" /\ mx.status[j] = "failed"

\* The tasks of the whole module lists for a machine and a call.
FullDesktopPaths(os, arch, is_debug) ==
    [m \in DOMAIN SOKOL_MODULES, b \in DOMAIN Backends(os) |->
        IF os = Lit.windows
        THEN {windows_obj(SOKOL_MODULES[m], arch, Backends(os)[b].suffix, is_debug),
              windows_lib(SOKOL_MODULES[m], arch, Backends(os)[b].suffix, is_debug)}
        ELSE {unix_obj(SOKOL_MODULES[m], Backends(os)[b].suffix, is_debug),
              unix_lib(SOKOL_MODULES[m], os, arch, Backends(os)[b].suffix, is_debug)}]

FullWasmPaths ==
    [m \in DOMAIN WASM_MODULES, p \in DOMAIN WasmProfiles |->
        {wasm_obj(WASM_MODULES[m], WasmProfiles[p].suffix),
         wasm_lib(WASM_MODULES[m], WasmProfiles[p].suffix)}]

\* No two entries of a table of path pairs share a path, and each entry has
\* two paths.
PairwiseDisjoint(table) ==
    /\ \A k \in DOMAIN table : Cardinality(table[k]) = 2
    /\ \A k, l \in DOMAIN table : k # l => table[k] \cap table[l] = {}

\* C27: for any two distinct tasks of one matrix run (desktop: distinct
\* (module, backend) pairs; web: distinct (module, profile) pairs) the object
\* path and the library path of one differ from both paths of the other.
\* Checked on the tasks of every call, and, when a call hands its tasks to
\* the pool, on the task list of all nine modules for that machine.
C27_TaskPathsDisjoint ==
    (mx.phase = "running") =>
        /\ PairwiseDisjoint([i \in DOMAIN mx.tasks |-> TaskPaths(mx.tasks[i])])
        /\ (\A i \in DOMAIN mx.tasks : mx.status[i] = "todo") =>
              IF mx.call.web THEN PairwiseDisjoint(FullWasmPaths)
              ELSE PairwiseDisjoint(FullDesktopPaths(mx.os, mx.arch, mx.call.debug))

\* Two tasks of a two-backend desktop run are in flight at once.
C27_Witness ==
    /\ mx.phase = "running" /\ ~mx.call.web
    /\ Len(Backends(mx.os)) = 2
    /\ \E i, j \in DOMAIN mx.tasks :
          /\ i # j /\ mx.status[i] = "compiled" /\ mx.status[j] = "compiled"
          /\ mx.tasks[i].module = mx.tasks[j].module

\* The libraries the web matrix is to leave: one per module and profile.
PredictedWasmLibs ==
    {<<WasmModules[m], <<"s", "o", "k", "o", "l", "_">> \o WasmModules[m]
                         \o <<"_", "w", "a", "s", "m", "_", "g", "l", "_">>
                         \o p \o <<".", "a">> >> :
        m \in DOMAIN WasmModules, p \in {Lit.debug, Lit.release}}

\* C28: the web matrix has no backend axis: its tasks are the cross product
\* of the modules (nine in all) with the profiles debug and release, every
\* task is compiled with the GLES3 define by emcc and archived by emar, and a
\* successful run leaves one library 'sokol_<module>_wasm_gl_<profile>.a'
\* per pair in the module's folder.
C28_WebMatrixIsModulesTimesProfiles ==
    (mx.call.web /\ mx.runs + (IF mx.phase = "running" THEN 1 ELSE 0) > 0
       /\ mx.tasks # <<>>) =>
        /\ Len(WASM_MODULES) = 9
        /\ Len(mx.tasks) = Len(WasmModules) * 2
        /\ {mx.tasks[i].lib : i \in DOMAIN mx.tasks} = PredictedWasmLibs
        /\ Cardinality(PredictedWasmLibs) = Len(WasmModules) * 2
        /\ \A i \in DOMAIN mx.tasks :
              /\ mx.tasks[i].define = "SOKOL_GLES3"
              /\ <<mx.tasks[i].cc, mx.tasks[i].ar>>
                    = (IF mx.os = Lit.windows THEN <<"emcc.bat", "emar.bat">>
                       ELSE <<"emcc", "emar">>)
        /\ (mx.phase = "idle" /\ mx.res.ok) =>
              (mx.built = PredictedWasmLibs /\ mx.built \subseteq mx.files)

\* A web run came to a successful end.
C28_Witness ==
    /\ mx.call.web /\ mx.phase = "idle" /\ mx.runs > 0
    /\ mx.res.ok /\ mx.built # {}

\* The tilesets the last call saw whose tile size, read from the name or
\* defaulted, is at least 1 x 1.
SlicedTilesets ==
    {id \in run.snapshot.files :
        /\ IsImageFile(id) /\ is_tileset(Catalog[id].path)
        /\ TileSizeOf(id)[1] >= 1 /\ TileSizeOf(id)[2] >= 1}

\* Insertion e is a tile of tileset id cut whole from inside the image, clear
\* of the columns and rows left over.
WholeTileInside(e, id) ==
    /\ e.from.x >= 0 /\ e.from.y >= 0
    /\ (e.from.x + 1) * TileSizeOf(id)[1]
          <= (Catalog[id].img.w \div TileSizeOf(id)[1]) * TileSizeOf(id)[1]
    /\ (e.from.y + 1) * TileSizeOf(id)[2]
          <= (Catalog[id].img.h \div TileSizeOf(id)[2]) * TileSizeOf(id)[2]
    /\ (e.from.x + 1) * TileSizeOf(id)[1] <= Catalog[id].img.w
    /\ (e.from.y + 1) * TileSizeOf(id)[2] <= Catalog[id].img.h
    /\ SubImageOf(e).w = TileSizeOf(id)[1] /\ SubImageOf(e).h = TileSizeOf(id)[2]
    /\ e.img = extrude_tile(flip_vertical(SubImageOf(e)))

\* C30: a tileset image of size (w, h) with tile size (W, H), W, H >= 1, is
\* sliced into exactly floor(w/W) * floor(h/H) tiles, each cut W x H from
\* fully inside the image, no two from the same place; the pixels of a
\* partial trailing column or row are in no tile, and they raise no error: a
\* call that repacks images none of which outgrows the atlas goes through.
C30_SlicingTruncatesPartialTiles ==
    /\ Processed(run) =>
          \A id \in SlicedTilesets :
              /\ Len(InsertedFrom(run, id))
                    = (Catalog[id].img.w \div TileSizeOf(id)[1])
                        * (Catalog[id].img.h \div TileSizeOf(id)[2])
              /\ \A n \in DOMAIN InsertedFrom(run, id) :
                    WholeTileInside(InsertedFrom(run, id)[n], id)
              /\ \A n, k \in DOMAIN InsertedFrom(run, id) :
                    n # k => InsertedFrom(run, id)[n].from # InsertedFrom(run, id)[k].from
    /\ (Repacked(run) /\ \A id \in run.snapshot.files :
                            IsImageFile(id) => Catalog[id].img.w <= 2040)
          => Processed(run)

\* A run sliced the 3 x 5 tileset of 2 x 2 tiles into its two whole tiles.
C30_Witness ==
    /\ Processed(run) /\ run.res.ok
    /\ 8 \in SlicedTilesets
    /\ Len(InsertedFrom(run, 8)) = 2

(***************************************************************************)
(* packer.rs: the tile grid read from a tileset's file name                *)
(*                                                                         *)
(* GridSpec: a tileset file of some name and size is handed to the tileset *)
(* branch of process_images, which reads the grid from the file stem and   *)
(* divides the image size by it.                                           *)
(***************************************************************************)

MaxStemLen == 5

GridAlphabet == {"t", "_", "x", "0", "1", "2", "+"}

\* The file stems of the tilesets: every short stem over GridAlphabet, and
\* some longer ones (a plain name, the usual suffix, the largest u32 and the
\* number after it).
GridStems ==
    (SeqsUpTo(GridAlphabet, MaxStemLen) \ {<<>>})
        \cup { <<"t", "i", "l", "e", "s", "e", "t">>,
               <<"t", "_", "1", "6", "x", "1", "6">>,
               <<"t", "_", "4", "2", "9", "4", "9", "6", "7", "2", "9", "5", "x", "1">>,
               <<"t", "_", "4", "2", "9", "4", "9", "6", "7", "2", "9", "6", "x", "1">>,
               <<"t", "_", "1", "x", "9", "9", "9", "9", "9", "9", "9", "9", "9", "9", "9">> }

\* The sizes of the tileset images.
GridImages == {<<3, 4>>, <<32, 16>>}

\* let cols = img.width() / tile_w; let rows = img.height() / tile_h: u32
\* division, which panics on a zero divisor.
grid_counts(w, h, tile) ==
    IF tile[1] = 0 THEN Err("Panic", <<"attempt to divide by zero", "cols">>)
    ELSE IF tile[2] = 0 THEN Err("Panic", <<"attempt to divide by zero", "rows">>)
    ELSE Ok(<<w \div tile[1], h \div tile[2]>>)

\* The head of the tileset branch for the file tilesets/<stem>.png holding a
\* w x h image: the grid from the stem, then the column and row counts.
tileset_grid(g, w, h, parsed) ==
    [g EXCEPT !.called = TRUE, !.img = <<w, h>>,
              !.parsed = parsed,
              !.tile = unwrap_or_default(parsed),
              !.res = grid_counts(w, h, unwrap_or_default(parsed))]

GridInit ==
    /\ clock = 0
    /\ src_mtime = Absent /\ out_mtime = Absent /\ last_touch = "none"
    /\ gate = NoCall
    /\ tree = [dir |-> FALSE, denied |-> FALSE, ent |-> [i \in Entries |-> Absent]]
    /\ atlas = NoAtlas /\ meta = NoMeta /\ run = NoCall
    /\ tile_in = NoImage /\ tile_out = NoImage
    /\ mx = NoCall /\ proc = NoCall /\ sh = NoCall /\ bd = NoCall
    /\ ini = NoCall /\ pj = NoCall
    /\ \E stem \in GridStems :
          gr = [called |-> FALSE, stem |-> stem, img |-> <<0, 0>>,
                parsed |-> None, tile |-> <<0, 0>>, res |-> Ok(<<0, 0>>)]

\* process_images reaches the file: its stem is file_stem of its path.
ProcessTileset(w, h) ==
    /\ ~gr.called
    /\ gr' = tileset_grid(gr, w, h,
                 parse_grid_size_from_name(
                     file_stem(<<TILESETS_DIR_NAME, gr.stem \o <<".">> \o PNG>>)))
    /\ UNCHANGED <<clock, gateVars, packVars, tileVars, mx, proc, sh, bd, ini, pj>>

GridNext == \E d \in GridImages : ProcessTileset(d[1], d[2])

GridSpec == GridInit /\ [][GridNext]_vars

\* The part of the stem after its last '_' (the whole stem when it has none).
LastPart(stem) == SubSeq(stem, LastIndexOf(stem, "_") + 1, Len(stem))

\* The places where the part can be read as '<W>x<H>': an 'x' with an
\* unsigned 32-bit integer on either side.
GridReadings(part) ==
    {k \in DOMAIN part :
        /\ part[k] = "x"
        /\ parse_u32(SubSeq(part, 1, k - 1)).some
        /\ parse_u32(SubSeq(part, k + 1, Len(part))).some}

\* C31: the tile grid of a tileset is (W, H) when the last '_'-separated part
\* of the file stem reads '<W>x<H>' with W and H unsigned 32-bit integers,
\* and is the 16 x 16 default for every other stem.
C31_GridFromSuffixElseDefault ==
    gr.called =>
        IF GridReadings(LastPart(gr.stem)) # {}
        THEN \E k \in GridReadings(LastPart(gr.stem)) :
                gr.tile = << parse_u32(SubSeq(LastPart(gr.stem), 1, k - 1)).val,
                             parse_u32(SubSeq(LastPart(gr.stem), k + 1,
                                              Len(LastPart(gr.stem)))).val >>
        ELSE gr.tile = <<16, 16>>

\* A tileset named t_1x2 was read as a 1 x 2 grid, and one named t_1x2_ as
\* the default grid.
C31_Witness ==
    /\ gr.called
    /\ \/ gr.stem = <<"t", "_", "1", "x", "2">> /\ gr.tile = <<1, 2>>
       \/ gr.stem = <<"1", "x", "2", "_", "t">> /\ gr.tile = <<16, 16>>

\* C33: tileset slicing never divides by zero: for every tileset file name,
\* also one whose suffix reads as a zero dimension, the tile width and height
\* that divide the image size are both at least 1.
C33_TileSizeAtLeastOne ==
    gr.called => /\ gr.tile[1] >= 1 /\ gr.tile[2] >= 1
                 /\ gr.res.ok

(***************************************************************************)
(* Further claims about pack_atlas (PackSpec).                             *)
(***************************************************************************)

\* The image files pack_atlas finds in directory t.
ImageFilesOf(t) == IF dir_exists(t) THEN {i \in Present(t) : IsImageFile(i)} ELSE {}

\* C32: when the images directory is missing or holds no PNG file and no
\* atlas exists yet, pack_atlas returns Ok and produces an empty atlas with
\* an empty sprite table; it does not return an error.
C32_EmptyInputGivesEmptyAtlas ==
    [][\A verbose \in BOOLEAN :
          (PackAtlasStep(verbose) /\ ~atlas.exists /\ ImageFilesOf(tree) = {})
              => /\ run'.res.ok
                 /\ atlas'.exists
                 /\ meta'.exists /\ DOMAIN meta'.sprites = {}]_vars

\* A pack of directory t from scratch.
FreshPack(t) ==
    pack_atlas(t, NoAtlas, NoMeta, FALSE, CHOOSE o \in WalkOrders(t) : TRUE, 0)

\* C35: after any sequence of adding, modifying and deleting PNG files under
\* the images directory followed by pack_atlas, the atlas on disk holds
\* exactly the sprites of the PNG files that exist now (those a pack from
\* scratch would place): a deleted source file, or an added one that is not
\* newer than the atlas, still leads to a repack.
C35_AtlasFollowsTheDirectory ==
    [][\A verbose \in BOOLEAN :
          (PackAtlasStep(verbose) /\ run'.res.ok /\ FreshPack(tree).run.res.ok)
              => /\ atlas'.exists
                 /\ atlas'.frames = FreshPack(tree).atlas.frames]_vars

(***************************************************************************)
(* Further claims about compile_shaders (ShaderSpec).                      *)
(***************************************************************************)

\* File i of the game shader tree was stale against its compiled output
\* when the last run began.
StaleAtStart(i) == is_stale(should_skip(sh.pre_ent[i], sh.pre_ent[SiblingOdin(i)]))

\* C34: distinct shader sources of the game shader tree map to distinct
\* compiled outputs, so after a successful compile_shaders run every shader
\* source that was stale when the run began has been compiled: two sources
\* of one directory that share a stem neither overwrite each other's output
\* nor cause the other to be skipped.
C34_EveryStaleSourceCompiled ==
    ShadersCompiled =>
        /\ \A i, j \in DOMAIN ShaderCatalog :
              (ShaderFileSeen(i) /\ ShaderFileSeen(j) /\ i # j)
                  => SiblingOdin(i) # SiblingOdin(j)
        /\ \A i \in DOMAIN ShaderCatalog :
              (ShaderFileSeen(i) /\ StaleAtStart(i)) => Invocations(i) = 1

(***************************************************************************)
(* commands/init.rs: init                                                  *)
(*                                                                         *)
(* InitSpec: the destination path is absent, a file, or a directory with   *)
(* some entries; init is called on it.  ini.dest is the destination now,   *)
(* ini.pre the destination when the last call began.                       *)
(***************************************************************************)

NoDest == [kind |-> "none", files |-> {}]
FileDest == [kind |-> "file", files |-> {}]
DirDest(files) == [kind |-> "dir", files |-> files]

\* Path::exists, Path::is_dir
dest_exists(d) == d.kind # "none"
dest_is_dir(d) == d.kind = "dir"

\* The project names tried: empty, plain, and with a character that is
\* invalid on Unix or on Windows.
InitNames == { <<>>, <<"g", "a", "m", "e">>, <<"a", "/", "b">>, <<"a", ":", "b">> }

\* let invalid_chars = if cfg!(windows) { .. } else { .. }
invalid_chars(os) ==
    IF os = Lit.windows THEN {"<", ">", ":", "\"", "|", "?", "*"} ELSE {"/", "\\0"}

\* What the template repository may hold besides its sources.
TemplateExtras == SUBSET {"README.md", "readme", ".gitignore"}

\* clone_repo(REPO_URL, destination, version, ui): a successful clone leaves
\* the work tree and .git in the destination; a failed one leaves the
\* destination as it was or with a part of the clone in it.
clone_repo(d, extras, outcome) ==
    IF outcome = "ok"
    THEN [res |-> Ok("unit"), dest |-> DirDest(d.files \cup {".git", "bonsai"} \cup extras)]
    ELSE IF outcome = "partial"
    THEN [res |-> Err("GitError", <<"clone">>), dest |-> DirDest(d.files \cup {".git"})]
    ELSE [res |-> Err("GitError", <<"clone">>), dest |-> d]

\* if p.exists() { fs::remove_dir_all(&p)?; } (or remove_file), for one of
\* the four leftovers of the clone; fails when this is the step that fails.
strip(st, name, step, fail_at) ==
    IF ~st.res.ok \/ name \notin st.dest.files THEN st
    ELSE IF fail_at = step THEN [st EXCEPT !.res = Err("IoError", <<name>>)]
    ELSE [st EXCEPT !.dest = DirDest(@.files \ {name})]

\* create_manifest(destination, name)?
create_manifest(st, fail_at) ==
    IF ~st.res.ok THEN st
    ELSE IF fail_at = 5 THEN [st EXCEPT !.res = Err("IoError", <<"bonsai.toml">>)]
    ELSE [st EXCEPT !.dest = DirDest(@.files \cup {"bonsai.toml"})]

\* The scope guard dropped with the guard left armed whatever should_cleanup is.
cleanup_always(st, should) ==
    IF ~st.res.ok /\ dest_exists(st.dest)
    THEN [st EXCEPT !.dest = NoDest, !.cleaned = TRUE]
    ELSE st

\* scopeguard::guard(should_cleanup, |should| if should && destination.exists()
\* { let _ = fs::remove_dir_all(destination); }): runs when init returns
\* through a `?`, not after ScopeGuard::into_inner on the Ok path.
cleanup_on_fail(st, should) ==
    IF ~st.res.ok /\ should /\ dest_exists(st.dest)
    THEN [st EXCEPT !.dest = NoDest, !.cleaned = TRUE]
    ELSE st

\* init from the guard's creation on.
init_guarded(d, should, extras, outcome, fail_at) ==
    cleanup_on_fail(
        create_manifest(
            strip(strip(strip(strip(
                [res |-> clone_repo(d, extras, outcome).res,
                 dest |-> clone_repo(d, extras, outcome).dest,
                 cleaned |-> FALSE, guarded |-> TRUE],
                ".git", 1, fail_at), "README.md", 2, fail_at),
                "readme", 3, fail_at), ".gitignore", 4, fail_at),
            fail_at),
        should)

\* pub fn init(args, ui)
init(d, os, name, extras, outcome, fail_at) ==
    IF name = <<>>
    THEN [res |-> Err("ValidationError", <<"empty">>), dest |-> d,
          cleaned |-> FALSE, guarded |-> FALSE]
    ELSE IF \E k \in DOMAIN name : name[k] \in invalid_chars(os)
    THEN [res |-> Err("ValidationError", <<"invalid">>), dest |-> d,
          cleaned |-> FALSE, guarded |-> FALSE]
    ELSE IF dest_exists(d) /\ ~dest_is_dir(d)
    THEN [res |-> Err("ValidationError", <<"not a directory">>), dest |-> d,
          cleaned |-> FALSE, guarded |-> FALSE]
    ELSE IF dest_exists(d) /\ fail_at = 6
    THEN [res |-> Err("IoError", <<"read_dir">>), dest |-> d,
          cleaned |-> FALSE, guarded |-> FALSE]
    ELSE IF dest_exists(d) /\ d.files # {}
    THEN [res |-> Err("ValidationError", <<"not empty">>), dest |-> d,
          cleaned |-> FALSE, guarded |-> FALSE]
    ELSE init_guarded(d, ~dest_exists(d), extras, outcome, fail_at)

InitInit ==
    /\ clock = 0
    /\ src_mtime = Absent /\ out_mtime = Absent /\ last_touch = "none"
    /\ gate = NoCall
    /\ tree = [dir |-> FALSE, denied |-> FALSE, ent |-> [i \in Entries |-> Absent]]
    /\ atlas = NoAtlas /\ meta = NoMeta /\ run = NoCall
    /\ tile_in = NoImage /\ tile_out = NoImage
    /\ mx = NoCall /\ proc = NoCall /\ sh = NoCall /\ bd = NoCall
    /\ gr = NoCall /\ pj = NoCall
    /\ ini = [called |-> FALSE, dest |-> NoDest, pre |-> NoDest, post |-> NoDest,
              os |-> Lit.linux, name |-> <<>>,
              res |-> Ok("unit"), cleaned |-> FALSE, guarded |-> FALSE]

\* Someone creates the destination: mkdir, or a file of that name.
MakeDest(as_dir) ==
    /\ ~dest_exists(ini.dest)
    /\ ini' = [ini EXCEPT !.dest = IF as_dir THEN DirDest({}) ELSE FileDest]
    /\ UNCHANGED <<clock, gateVars, packVars, tileVars, mx, proc, sh, bd, gr, pj>>

\* Someone puts a file of their own into the destination directory.
PutUserFile ==
    /\ dest_is_dir(ini.dest)
    /\ ini' = [ini EXCEPT !.dest = DirDest(@.files \cup {"notes.txt"})]
    /\ UNCHANGED <<clock, gateVars, packVars, tileVars, mx, proc, sh, bd, gr, pj>>

\* Someone removes the destination.
RemoveDest ==
    /\ dest_exists(ini.dest)
    /\ ini' = [ini EXCEPT !.dest = NoDest]
    /\ UNCHANGED <<clock, gateVars, packVars, tileVars, mx, proc, sh, bd, gr, pj>>

\* The record of a call that began on destination d and came out as o.
InitOutcome(d, os, name, o) ==
    [called |-> TRUE, pre |-> d, dest |-> o.dest, post |-> o.dest,
     os |-> os, name |-> name,
     res |-> o.res, cleaned |-> o.cleaned, guarded |-> o.guarded]

\* bonsai init <name>
InitCmd(os, name, extras, outcome, fail_at) ==
    /\ ini' = InitOutcome(ini.dest, os, name,
                          init(ini.dest, os, name, extras, outcome, fail_at))
    /\ UNCHANGED <<clock, gateVars, packVars, tileVars, mx, proc, sh, bd, gr, pj>>

InitNext ==
    \/ \E as_dir \in BOOLEAN : MakeDest(as_dir)
    \/ PutUserFile
    \/ RemoveDest
    \/ \E os \in {Lit.windows, Lit.linux}, name \in InitNames, extras \in TemplateExtras,
          outcome \in {"ok", "partial", "untouched"}, fail_at \in 0 .. 6 :
          InitCmd(os, name, extras, outcome, fail_at)

InitSpec == InitInit /\ [][InitNext]_vars

MaxDepth == 3
MaxEntries == 1
MaxSystems == 1

SysNames == {<<"a">>, <<"b">>, <<"c">>, <<"d">>}
BadName == <<"x", "/", "y">>

\* The repositories that can be installed, by the last segment of their URL:
\* the system each holds under bonsai/systems, the [dependencies] of its
\* bonsai.toml that carry a git URL (in file order), and whether it has a
\* utils directory.  a and b depend on each other; d depends on c.
Repos ==
    [r \in SysNames |->
        [system |-> r,
         deps |-> IF r = <<"a">> THEN << [name |-> <<"b">>, repo |-> <<"b">>] >>
                  ELSE IF r = <<"b">> THEN << [name |-> <<"a">>, repo |-> <<"a">>] >>
                  ELSE IF r = <<"d">> THEN << [name |-> <<"c">>, repo |-> <<"c">>] >>
                  ELSE <<>>,
         utils |-> r \in {<<"a">>, <<"c">>}]]

\* An entry of the manifest's [systems] table: none, a version string, or an
\* inline table with a path that is bonsai/systems/<key>, a path that does
\* not exist, or an existing path outside bonsai/systems.
NoEntry == [kind |-> "none", at |-> "-"]
VersionEntry == [kind |-> "version", at |-> "-"]
PathEntry(at) == [kind |-> "path", at |-> at]
EntryKinds ==
    {NoEntry, VersionEntry, PathEntry("systems"), PathEntry("missing"), PathEntry("outside")}

\* folder_name.contains('/') || folder_name.contains('\\')
contains_separator(name) == \E k \in DOMAIN name : name[k] \in {"/", "\\"}

\* full_path.exists() for the path of key n's entry.
entry_path_exists(p, n, e) ==
    IF e.at = "systems" THEN n \in p.sys ELSE e.at = "outside"

\* fn is_path_safe(root, child): the canonical child starts with the root.
is_path_safe(e) == e.at = "systems"

\* The first loop of update_manifest: every directory under bonsai/systems
\* gets a system.toml if it has none and an entry if the table has no such key.
discover(p) ==
    [p EXCEPT !.sys_toml = @ \cup p.sys,
              !.man.systems = [n \in SysNames |->
                                  IF n \in p.sys /\ @[n].kind = "none"
                                  THEN PathEntry("systems") ELSE @[n]]]

\* The second loop and deps.remove: an inline-table entry whose path does
\* not exist, or exists outside the systems root, is removed.
prune(p) ==
    [p EXCEPT !.man.systems = [n \in SysNames |->
                                  IF /\ @[n].kind = "path"
                                     /\ \/ ~entry_path_exists(p, n, @[n])
                                        \/ ~is_path_safe(@[n])
                                  THEN NoEntry ELSE @[n]]]

\* pub fn update_manifest(project_root, ui)
update_manifest(p) ==
    IF ~p.has_sys_dir THEN [res |-> Ok("unit"), fs |-> p]
    ELSE IF ~p.man.exists
    THEN [res |-> Err("ValidationError", <<"manifest not found">>), fs |-> p]
    ELSE IF ~p.man.parses
    THEN [res |-> Err("TomlError", <<"parse">>), fs |-> p]
    ELSE [res |-> Ok("unit"), fs |-> prune(discover(p))]

\* pub fn remove(args): SYSTEMS_DIR is "source/systems".
remove(p, name, yes, answer) ==
    IF contains_separator(name)
    THEN [res |-> Err("ValidationError", <<"invalid name">>), fs |-> p]
    ELSE IF name \notin p.src_sys
    THEN [res |-> Err("ValidationError", <<"not found">>), fs |-> p]
    ELSE IF ~yes /\ answer \notin {"y", "yes"}
    THEN [res |-> Ok("unit"), fs |-> p]
    ELSE update_manifest([p EXCEPT !.src_sys = @ \ {name}])

\* install up to the dependency loop: the checks, the clone into a temporary
\* directory, the repository's manifest.  The frame of the call holds the
\* folder name, the repository, the dependencies still to resolve, and the
\* project as the call found it.
install_enter(p, repo, name, clone) ==
    IF ~p.man.exists THEN Err("ValidationError", <<"manifest not found">>)
    ELSE IF contains_separator(name) THEN Err("ValidationError", <<"invalid name">>)
    ELSE IF ~p.has_sys_dir THEN Err("ValidationError", <<"systems not found">>)
    ELSE IF name \in p.sys THEN Err("ValidationError", <<"already installed">>)
    ELSE IF clone = "fail" THEN Err("GitError", <<"clone">>)
    ELSE IF clone = "no manifest" THEN Err("ValidationError", <<"not a system">>)
    ELSE Ok([name |-> name, repo |-> repo, todo |-> Repos[repo].deps, seen |-> p])

\* install after the dependency loop: the system is copied to
\* bonsai/systems/<name>, the utilities to utils/<name>, the manifest synced.
install_finish(p, frame) ==
    IF frame.name # Repos[frame.repo].system
    THEN [res |-> Err("ValidationError", <<"structure mismatch">>), fs |-> p]
    ELSE update_manifest(
             [p EXCEPT !.sys = @ \cup {frame.name},
                       !.sys_toml = @ \cup {frame.name},
                       !.utils = IF Repos[frame.repo].utils
                                 THEN @ \cup {frame.name} ELSE @])

\* The record of a command, with the project as it found it and the
\* command before it.
Done(cmd, name, confirmed, res) ==
    [cmd |-> cmd, name |-> name, confirmed |-> confirmed, res |-> res,
     pre |-> pj.fs,
     prev |-> [cmd |-> pj.last.cmd, name |-> pj.last.name, ok |-> pj.last.res.ok]]

ProjectInit ==
    /\ clock = 0
    /\ src_mtime = Absent /\ out_mtime = Absent /\ last_touch = "none"
    /\ gate = NoCall
    /\ tree = [dir |-> FALSE, denied |-> FALSE, ent |-> [i \in Entries |-> Absent]]
    /\ atlas = NoAtlas /\ meta = NoMeta /\ run = NoCall
    /\ tile_in = NoImage /\ tile_out = NoImage
    /\ mx = NoCall /\ proc = NoCall /\ sh = NoCall /\ bd = NoCall
    /\ gr = NoCall /\ ini = NoCall
    /\ \E systems \in [SysNames -> EntryKinds], sys \in SUBSET SysNames,
          has_sys_dir \in BOOLEAN, manifest \in {"absent", "malformed", "ok"},
          src \in {{}, {<<"c">>}} :
          /\ Cardinality({n \in SysNames : systems[n] # NoEntry}) <= MaxEntries
          /\ Cardinality(sys) <= MaxSystems
          /\ sys # {} => has_sys_dir
          /\ manifest # "ok" => \A n \in SysNames : systems[n] = NoEntry
          /\ pj = [fs |-> [man |-> [exists |-> manifest # "absent",
                                    parses |-> manifest = "ok",
                                    systems |-> systems],
                           has_sys_dir |-> has_sys_dir,
                           sys |-> sys, sys_toml |-> {}, src_sys |-> src, utils |-> {}],
                   stack |-> <<>>,
                   last |-> [cmd |-> "none", name |-> <<>>, confirmed |-> FALSE,
                             res |-> Ok("unit"),
                             pre |-> [man |-> [exists |-> manifest # "absent",
                                               parses |-> manifest = "ok",
                                               systems |-> systems],
                                      has_sys_dir |-> has_sys_dir,
                                      sys |-> sys, sys_toml |-> {}, src_sys |-> src,
                                      utils |-> {}],
                             prev |-> [cmd |-> "none", name |-> <<>>, ok |-> TRUE]]]

\* bonsai install <url> [--name <name>]: the name defaults to the last
\* segment of the URL.
InstallCmd(repo, name, clone) ==
    /\ pj.stack = <<>>
    /\ pj' = IF install_enter(pj.fs, repo, name, clone).ok
             THEN [pj EXCEPT !.stack = <<install_enter(pj.fs, repo, name, clone).val>>,
                             !.last = Done("installing", name, TRUE, Ok("unit"))]
             ELSE [pj EXCEPT !.last = Done("install", name, TRUE,
                                           install_enter(pj.fs, repo, name, clone))]
    /\ UNCHANGED <<clock, gateVars, packVars, tileVars, mx, proc, sh, bd, gr, ini>>

\* The innermost install call resolves its next dependency: install(&dep_args,
\* ui_clone)?, a nested call, or its error returned through every caller.
InstallDep(clone) ==
    /\ pj.stack # <<>>
    /\ pj.stack[Len(pj.stack)].todo # <<>>
    /\ Len(pj.stack) < MaxDepth
    /\ pj' = IF install_enter(pj.fs, Head(pj.stack[Len(pj.stack)].todo).repo,
                              Head(pj.stack[Len(pj.stack)].todo).name, clone).ok
             THEN [pj EXCEPT !.stack =
                      Append([@ EXCEPT ![Len(@)].todo = Tail(@)],
                             install_enter(pj.fs, Head(pj.stack[Len(pj.stack)].todo).repo,
                                           Head(pj.stack[Len(pj.stack)].todo).name,
                                           clone).val)]
             ELSE [pj EXCEPT !.stack = <<>>,
                             !.last.cmd = "install",
                             !.last.res =
                                 install_enter(pj.fs, Head(pj.stack[Len(pj.stack)].todo).repo,
                                               Head(pj.stack[Len(pj.stack)].todo).name, clone)]
    /\ UNCHANGED <<clock, gateVars, packVars, tileVars, mx, proc, sh, bd, gr, ini>>

\* The innermost install call has no dependency left: it copies, syncs the
\* manifest and returns to its caller, or returns its error through every caller.
InstallFinish ==
    /\ pj.stack # <<>>
    /\ pj.stack[Len(pj.stack)].todo = <<>>
    /\ pj' = [pj EXCEPT !.fs = install_finish(pj.fs, pj.stack[Len(pj.stack)]).fs,
                        !.stack = IF install_finish(pj.fs, pj.stack[Len(pj.stack)]).res.ok
                                  THEN SubSeq(@, 1, Len(@) - 1) ELSE <<>>,
                        !.last.cmd = IF Len(pj.stack) = 1
                                        \/ ~install_finish(pj.fs, pj.stack[Len(pj.stack)]).res.ok
                                     THEN "install" ELSE @,
                        !.last.res = install_finish(pj.fs, pj.stack[Len(pj.stack)]).res]
    /\ UNCHANGED <<clock, gateVars, packVars, tileVars, mx, proc, sh, bd, gr, ini>>

\* bonsai remove <name> [--yes]
RemoveCmd(name, yes, answer) ==
    /\ pj.stack = <<>>
    /\ pj' = [pj EXCEPT !.fs = remove(pj.fs, name, yes, answer).fs,
                        !.last = Done("remove", name, yes \/ answer \in {"y", "yes"},
                                      remove(pj.fs, name, yes, answer).res)]
    /\ UNCHANGED <<clock, gateVars, packVars, tileVars, mx, proc, sh, bd, gr, ini>>

\* prepare_resources calls update_manifest.
UpdateManifest ==
    /\ pj.stack = <<>>
    /\ pj' = [pj EXCEPT !.fs = update_manifest(pj.fs).fs,
                        !.last = Done("update", <<>>, TRUE, update_manifest(pj.fs).res)]
    /\ UNCHANGED <<clock, gateVars, packVars, tileVars, mx, proc, sh, bd, gr, ini>>

ProjectNext ==
    \/ \E repo \in SysNames, name \in SysNames \cup {BadName},
          clone \in {"ok", "fail", "no manifest"} :
          /\ name \in {repo, <<"c">>, BadName}
          /\ InstallCmd(repo, name, clone)
    \/ \E clone \in {"ok", "fail", "no manifest"} : InstallDep(clone)
    \/ InstallFinish
    \/ \E name \in SysNames \cup {BadName}, yes \in BOOLEAN, answer \in {"y", "n"} :
          RemoveCmd(name, yes, answer)
    \/ UpdateManifest

ProjectSpec == ProjectInit /\ [][ProjectNext]_vars

\* C37: install terminates for every dependency graph among systems, cyclic
\* ones included: the recursion that resolves dependencies does not come
\* back to a system it is already installing with the project unchanged
\* (from where it would repeat itself without end).
C37_InstallRecursionProgresses ==
    \A i, j \in DOMAIN pj.stack :
        (i < j /\ pj.stack[i].name = pj.stack[j].name
               /\ pj.stack[i].repo = pj.stack[j].repo)
            => pj.stack[i].seen # pj.stack[j].seen

\* C38: install followed by remove of the same system name is a round trip:
\* after 'install X' succeeded, a confirmed 'remove X' finds the system,
\* deletes the directory that install created, and leaves the manifest
\* without an entry for X.
C38_InstallRemoveRoundTrip ==
    (/\ pj.last.cmd = "remove" /\ pj.last.confirmed
     /\ pj.last.prev = [cmd |-> "install", name |-> pj.last.name, ok |-> TRUE])
        => /\ pj.last.res.ok
           /\ pj.last.name \notin pj.fs.sys
           /\ pj.fs.man.systems[pj.last.name] = NoEntry

\* C39: after update_manifest returned Ok with a systems directory present,
\* every subdirectory of bonsai/systems has an entry in the [systems] table,
\* no path-typed entry points to a path that does not exist or lies outside
\* the systems root, entries that are not path-typed are unchanged, and a
\* second update_manifest without filesystem changes leaves the manifest
\* unchanged.
C39_ManifestSyncedAndIdempotent ==
    (pj.last.cmd = "update" /\ pj.last.res.ok /\ pj.last.pre.has_sys_dir)
        => /\ \A n \in pj.fs.sys : pj.fs.man.systems[n] # NoEntry
           /\ \A n \in SysNames :
                 pj.fs.man.systems[n].kind = "path"
                     => /\ entry_path_exists(pj.fs, n, pj.fs.man.systems[n])
                        /\ is_path_safe(pj.fs.man.systems[n])
           /\ \A n \in SysNames :
                 pj.last.pre.man.systems[n].kind = "version"
                     => pj.fs.man.systems[n] = pj.last.pre.man.systems[n]
           /\ update_manifest(pj.fs).fs.man = pj.fs.man

====
